---- MODULE Spec2Model ----
(***************************************************************************)
(* DriftWing weekly leaderboard lifecycle (src/lib/leaderboard.ts, the     *)
(* module that starts at line 310) and its request handlers                *)
(* (src/app/api/health/storage/route.ts, GET at 171 and POST at 224).      *)
(*                                                                         *)
(* Every request is a process.  A process takes one step per storage       *)
(* operation (getJson / setJson / delKey); the code that runs between the  *)
(* completion of one storage operation and the start of the next (Date.now *)
(* reads included) is part of the step of the operation it follows.        *)
(***************************************************************************)
EXTENDS Integers, Sequences, FiniteSets, TLC

VARIABLES
  kv,      \* the key-value store behind getJson/setJson/delKey (mem / KV)
  now,     \* the value Date.now() returns, in ms
  env,     \* process.env: the leaderboard configuration
  procs,   \* per request slot: position in the handler and its locals
  nreq,    \* requests received so far
  hist     \* history kept for the properties; no action reads it

vars == <<kv, now, env, procs, nreq, hist>>

(***************************************************************************)
(* Bounds of the model.                                                    *)
(***************************************************************************)
NumProcs       == 2  \* request slots (requests in flight at once)
MaxRequests    == 3  \* requests received in one behaviour, served concurrently
MaxSeqRequests == 3  \* requests received in one behaviour, served one at a time
MaxWeek        == 2  \* the clock stops at the start of this week id
MaxSubTicks    == 1  \* 1 ms ticks taken inside one week
MaxScore       == 2  \* scores submitted are 1..MaxScore
MaxEntries     == 4  \* entries of a store handed to topEntries directly

Procs == 1..NumProcs

Max2(a, b) == IF a >= b THEN a ELSE b
Min2(a, b) == IF a <= b THEN a ELSE b

(***************************************************************************)
(* JSON values as the store holds them.  typeof and Array.isArray are the  *)
(* "type" tag.                                                             *)
(***************************************************************************)
JNull      == [type |-> "null"]
JNum(n)    == [type |-> "number", v |-> n]
JArr(s)    == [type |-> "array", v |-> s]

(***************************************************************************)
(* Addresses are sequences of characters; String.prototype.toLowerCase     *)
(* maps each character.                                                    *)
(***************************************************************************)
lowerChar(c) ==
  CASE c = "A" -> "a" [] c = "B" -> "b" [] c = "C" -> "c"
    [] c = "D" -> "d" [] c = "E" -> "e" [] c = "F" -> "f"
    [] c = "X" -> "x" [] OTHER -> c

toLowerCase(s) == [i \in DOMAIN s |-> lowerChar(s[i])]

AddrPool == << <<"0", "x", "a">>, <<"0", "x", "A">>, <<"0", "x", "b">>, <<"0", "x", "B">> >>
Addrs(n) == {AddrPool[i] : i \in 1..Min2(n, Len(AddrPool))}

HexDigits ==
  {"0", "1", "2", "3", "4", "5", "6", "7", "8", "9",
   "a", "b", "c", "d", "e", "f", "A", "B", "C", "D", "E", "F"}

\* the hex digits are not looked at (any 66 characters after 0x pass)
isTxHashAnyDigits(h) ==
  /\ Len(h) = 66
  /\ h[1] = "0"
  /\ h[2] = "x"

\* /^0x[0-9a-fA-F]{64}$/.test(txHash), txHash a sequence of characters
isTxHash(h) ==
  /\ Len(h) = 66
  /\ h[1] = "0"
  /\ h[2] = "x"
  /\ \A i \in 3..66 : h[i] \in HexDigits

\* the string 0x followed by the character c n times
hexString(c, n) == <<"0", "x">> \o [i \in 1..n |-> c]

TxPool == <<hexString("1", 64), hexString("A", 64)>>
TxHashes(n) == {TxPool[i] : i \in 1..Min2(n, Len(TxPool))}

(***************************************************************************)
(* Configuration and week clock.                                           *)
(***************************************************************************)
DEFAULT_WEEK_MS == 604800000
MIN_WEEK_MS     == 10000
TOP_N           == 100

EnvUnset  == [set |-> FALSE, num |-> FALSE, v |-> 0]
EnvNum(n) == [set |-> TRUE, num |-> TRUE, v |-> n]
EnvNaN    == [set |-> TRUE, num |-> FALSE, v |-> 0]

\* the configured window length is ignored
weekMsOfDefault(msRaw, secRaw) == DEFAULT_WEEK_MS

\* the floor is 1 second (ms >= 1_000)
weekMsOfLowFloor(msRaw, secRaw) ==
  LET ms == IF msRaw.set THEN msRaw
            ELSE IF secRaw.set
                 THEN (IF secRaw.num THEN EnvNum(secRaw.v * 1000) ELSE EnvNaN)
                 ELSE EnvNum(DEFAULT_WEEK_MS)
  IN IF ms.num /\ ms.v >= 1000 THEN ms.v ELSE DEFAULT_WEEK_MS

\* Number(raw) is NaN for EnvNaN; Number.isFinite(ms) && ms >= 10_000
weekMsOf(msRaw, secRaw) ==
  LET ms == IF msRaw.set THEN msRaw
            ELSE IF secRaw.set
                 THEN (IF secRaw.num THEN EnvNum(secRaw.v * 1000) ELSE EnvNaN)
                 ELSE EnvNum(DEFAULT_WEEK_MS)
  IN IF ms.num /\ ms.v >= MIN_WEEK_MS THEN ms.v ELSE DEFAULT_WEEK_MS

getWeekMs == weekMsOf(env.LEADERBOARD_WEEK_MS, env.LEADERBOARD_WEEK_SECONDS)

\* LEADERBOARD_GENESIS_ISO as Date.parse returns it
getGenesisMs == env.genesisMs

\* NEXT_PUBLIC_SCOREBOARD_ADDRESS is set (to a non-empty string)
SCOREBOARD_ADDRESS == env.NEXT_PUBLIC_SCOREBOARD_ADDRESS

\* the clamp at 0 is missing (no Math.max)
weekIdFromTsUnclamped(tsMs) == (tsMs - getGenesisMs) \div getWeekMs

\* Math.max(0, Math.floor((tsMs - genesis) / weekMs))
weekIdFromTs(tsMs) == Max2(0, (tsMs - getGenesisMs) \div getWeekMs)

currentWeekId(tsMs) == weekIdFromTs(tsMs)

\* the window ends on its last millisecond (an inclusive end)
weekWindowFromIdInclusive(weekId) ==
  LET startMs == getGenesisMs + weekId * getWeekMs
  IN [startMs |-> startMs, endMs |-> startMs + getWeekMs - 1,
      weekMs |-> getWeekMs, genesisMs |-> getGenesisMs]

weekWindowFromId(weekId) ==
  LET startMs == getGenesisMs + weekId * getWeekMs
  IN [startMs |-> startMs, endMs |-> startMs + getWeekMs,
      weekMs |-> getWeekMs, genesisMs |-> getGenesisMs]

(***************************************************************************)
(* Storage keys and primitives.                                            *)
(***************************************************************************)
KEY_weekStore(weekId) == "dw:lb:week:" \o ToString(weekId)
KEY_snapshot(weekId)  == "dw:lb:snapshot:" \o ToString(weekId)
KEY_snapshotsIndex    == "dw:lb:snapshots"
KEY_lastSnapWeekId    == "dw:lb:lastSnapWeekId"

lookup(m, key) == IF key \in DOMAIN m THEN m[key] ELSE JNull

\* every read misses (a read under another key than the writes use)
getJsonMiss(key) == JNull

getJson(key) == lookup(kv, key)

setJson(key, value) ==
  [k \in (DOMAIN kv) \cup {key} |-> IF k = key THEN value ELSE kv[k]]

delKey(key) == [k \in (DOMAIN kv) \ {key} |-> kv[k]]

(***************************************************************************)
(* Week stores.  entries keeps the insertion order of its keys, as a JS    *)
(* object with string keys does: it is a sequence of entries, each with    *)
(* the key it is stored under.                                             *)
(***************************************************************************)
WeekStoreOf(weekId, updatedAt, entries) ==
  [type |-> "object", weekId |-> weekId, updatedAt |-> updatedAt,
   entries |-> entries]

\* typeof v.entries ("object" for an array too), "null" standing for every
\* falsy value; a record built by WeekStoreOf holds an object
entriesTypeOf(v) ==
  IF "entries" \notin DOMAIN v THEN "undefined"
  ELSE IF "entriesType" \in DOMAIN v THEN v.entriesType
       ELSE "object"

\* the weekId field is not compared with the requested id
isWeekStoreAnyWeek(v, weekId) ==
  /\ v.type = "object"
  /\ "weekId" \in DOMAIN v
  /\ entriesTypeOf(v) = "object"

\* v && typeof v === "object" && v.weekId === weekId && v.entries &&
\* typeof v.entries === "object"
isWeekStore(v, weekId) ==
  /\ v.type = "object"
  /\ "weekId" \in DOMAIN v
  /\ v.weekId = weekId
  /\ entriesTypeOf(v) = "object"

isSnapshot(v, weekId) ==
  /\ v.type = "object"
  /\ "weekId" \in DOMAIN v
  /\ v.weekId = weekId
  /\ "top" \in DOMAIN v

loadWeekStore(weekId) ==
  LET existing == getJson(KEY_weekStore(weekId))
  IN IF isWeekStore(existing, weekId) THEN existing
     ELSE WeekStoreOf(weekId, now, <<>>)

\* store.entries[k]
entryIndex(entries, k) ==
  IF \E i \in DOMAIN entries : entries[i].key = k
  THEN CHOOSE i \in DOMAIN entries : entries[i].key = k
  ELSE 0

\* store.entries[k] = next
putEntry(entries, k, next) ==
  LET i == entryIndex(entries, k)
  IN IF i = 0 THEN Append(entries, next) ELSE [entries EXCEPT ![i] = next]

(***************************************************************************)
(* Ranking: Array.prototype.sort with the comparator of topEntries (a      *)
(* stable sort), then slice(0, limit).                                     *)
(***************************************************************************)
\* ties are ordered by later updatedAt first (b.updatedAt - a.updatedAt)
keepsBeforeLatestFirst(a, b) ==
  IF b.score # a.score THEN b.score - a.score <= 0
  ELSE b.updatedAt - a.updatedAt <= 0

\* the comparator returns a value <= 0: a is kept before b
keepsBefore(a, b) ==
  IF b.score # a.score THEN b.score - a.score <= 0
  ELSE a.updatedAt - b.updatedAt <= 0

RECURSIVE insertSorted(_, _)
insertSorted(sorted, e) ==
  IF sorted = <<>> THEN <<e>>
  ELSE IF keepsBefore(Head(sorted), e)
       THEN <<Head(sorted)>> \o insertSorted(Tail(sorted), e)
       ELSE <<e>> \o sorted

RECURSIVE sortEntries(_)
sortEntries(arr) ==
  IF arr = <<>> THEN <<>>
  ELSE insertSorted(sortEntries(SubSeq(arr, 1, Len(arr) - 1)), arr[Len(arr)])

\* arr.slice(0, end): a negative end counts from the end of the array
sliceTo(arr, end) ==
  LET k == IF end < 0 THEN Max2(Len(arr) + end, 0) ELSE Min2(end, Len(arr))
  IN SubSeq(arr, 1, k)

topEntries(store, limit) == sliceTo(sortEntries(store.entries), limit)

(***************************************************************************)
(* Watermark and snapshot index.                                           *)
(***************************************************************************)
getLastSnapWeekId ==
  LET v == getJson(KEY_lastSnapWeekId)
  IN IF v.type = "number" THEN v.v ELSE -1

readSnapshotsIndex ==
  LET v == getJson(KEY_snapshotsIndex)
  IN IF v.type = "array" THEN v.v ELSE <<>>

SeqToSet(s) == {s[i] : i \in DOMAIN s}

RECURSIVE sortAsc(_)
sortAsc(S) ==
  IF S = {} THEN <<>>
  ELSE LET m == CHOOSE x \in S : \A y \in S : x <= y
       IN <<m>> \o sortAsc(S \ {m})

\* Array.from(new Set(arr)).sort((a, b) => a - b)
uniqSorted(arr) == sortAsc(SeqToSet(arr))

\* the current week is taken for the last fully elapsed one
rolloverTargetCurrent(nowWeekId) == nowWeekId

\* const target = nowWeekId - 1
rolloverTarget(nowWeekId) == nowWeekId - 1

\* the watermark runs one week ahead of the week just finalized
loopLastAhead(w) == w + 1

\* last = w; await setLastSnapWeekId(last)
loopLast(w) == w

\* the snapshot ensureWeekSnapshot builds from the store it loaded
buildSnapshot(weekId, store, createdAtMs) ==
  [type |-> "object", weekId |-> weekId,
   weekStartMs |-> weekWindowFromId(weekId).startMs,
   weekEndMs |-> weekWindowFromId(weekId).endMs,
   createdAtMs |-> createdAtMs,
   totalPlayers |-> Len(store.entries),
   top |-> topEntries(store, TOP_N)]

\* the entry is replaced whatever it holds
shouldReplaceAlways(entries, k, score) == TRUE

\* an equal score replaces the entry too (>= for >)
shouldReplaceOnTie(entries, k, score) ==
  \/ entryIndex(entries, k) = 0
  \/ score >= entries[entryIndex(entries, k)].score

\* if (!existing || params.score > existing.score)
shouldReplace(entries, k, score) ==
  \/ entryIndex(entries, k) = 0
  \/ score > entries[entryIndex(entries, k)].score

(***************************************************************************)
(* Responses.                                                              *)
(***************************************************************************)
\* the stable sort places arr[j] before arr[i]
placedBefore(arr, j, i) ==
  IF j < i THEN keepsBefore(arr[j], arr[i]) ELSE ~keepsBefore(arr[i], arr[j])

\* the index (from 1) at which the sorted array holds arr[i]: one more
\* than the number of entries the stable sort places before it
sortedIndex(arr, i) ==
  1 + Cardinality({j \in DOMAIN arr : j # i /\ placedBefore(arr, j, i)})

\* rankOf: all the entries are sorted (no limit), then findIndex returns the
\* first index of the sorted array whose address matches, or null.  The
\* index is computed by counting, so that a store of thousands of entries
\* can be ranked.
rankOf(store, address) ==
  LET addr == toLowerCase(address)
      arr == store.entries
      hits == {i \in DOMAIN arr : toLowerCase(arr[i].address) = addr}
      at == {sortedIndex(arr, i) : i \in hits}
  IN IF hits = {} THEN JNull
     ELSE JNum(CHOOSE k \in at : \A m \in at : k <= m)

\* rankInTop: the 1-based index in the snapshot's top, or null
rankInTop(top, account) ==
  LET a == toLowerCase(account)
      hits == {i \in DOMAIN top : toLowerCase(top[i].address) = a}
  IN IF hits = {} THEN JNull
     ELSE JNum(CHOOSE i \in hits : \A j \in hits : i <= j)

\* url.searchParams.get("account"): null, or a string of characters
AccountAbsent == [given |-> FALSE, s |-> <<>>]
AccountOf(s)  == [given |-> TRUE, s |-> s]

\* account ? ... : null (null and the empty string are falsy)
accountGiven(account) == account.given /\ account.s # <<>>

\* .map((e) => ({ address: e.address, score: e.score }))
publicTop(top) ==
  [i \in DOMAIN top |-> [address |-> top[i].address, score |-> top[i].score]]

\* the body POST answers with, from what upsertWeeklyBest returned
postResponse(weekId, store, player) ==
  [status |-> 200, weekId |-> weekId,
   top |-> publicTop(topEntries(store, TOP_N)),
   myRank |-> rankOf(store, player)]

(***************************************************************************)
(* Request slots.                                                          *)
(***************************************************************************)
NoParams == [address |-> <<>>, score |-> 0, txHash |-> <<>>]

IdleProc ==
  [pc |-> "idle", kind |-> "none", weekId |-> 0, nowWeek |-> 0,
   target |-> 0, last |-> 0, w |-> 0, store |-> JNull,
   snap |-> JNull, idx |-> <<>>, params |-> NoParams,
   account |-> AccountAbsent, ret |-> JNull]

pcOf(p) == procs[p].pc

\* a slot is free before its first request and once its request has returned
\* (ret then holds what the last request returned)
Free(p) == pcOf(p) \in {"idle", "done"}

AllIdle == \A p \in Procs : Free(p)

\* a new request takes the lowest free slot
FreeSlot(p) ==
  /\ Free(p)
  /\ \A q \in Procs : q < p => ~Free(q)

Set(p, pr) == procs' = [procs EXCEPT ![p] = pr]

(***************************************************************************)
(* History for the properties, recorded only when hist.on:                 *)
(*   cur, prev  the two latest completed rolloverIfNeeded calls with no    *)
(*              week-store write since: the argument and the storage each  *)
(*              left behind;                                               *)
(*   best       per (week, lower-cased address): the highest score handed  *)
(*              to upsertWeeklyBest so far, the time of that call, and the *)
(*              first score handed in;                                     *)
(*   base       the storage the behaviour started from;                    *)
(*   call       the storage as the GET request in flight found it (empty   *)
(*              when none is in flight).                                   *)
(* And, recorded only when hist.inputs:                                    *)
(*   req        the latest request as the handler received it.             *)
(* And, whenever a score is submitted again:                               *)
(*   resub      the week, address and score of the latest resubmission.    *)
(* And, by the notification handlers:                                      *)
(*   sent       per due-set member: the run time and the cadence of its    *)
(*              latest successful send;                                    *)
(*   removed    the (fid, appFid) pairs unsubscribed by a webhook and not  *)
(*              registered again since.                                    *)
(***************************************************************************)
NoHist == [on |-> FALSE, prev |-> JNull, cur |-> JNull, best |-> << >>,
           base |-> << >>, call |-> << >>, inputs |-> FALSE, req |-> JNull,
           resub |-> JNull, sent |-> << >>, removed |-> {}]

rolloverReturned(old, new) ==
  \/ new.pc \in {"view_readSnapshot", "view_loadWeekStore"}
  \/ /\ new.pc = "done"
     /\ new.kind = "POST"
     /\ new.ret.status = 200

bestAfter(best, new, t) ==
  LET key == <<new.weekId, toLowerCase(new.params.address)>>
  IN IF key \in DOMAIN best /\ best[key].score >= new.params.score
     THEN best
     ELSE [x \in (DOMAIN best) \cup {key} |->
             IF x = key
             THEN [score |-> new.params.score, at |-> t,
                   first |-> IF key \in DOMAIN best THEN best[key].first
                             ELSE new.params.score]
             ELSE best[x]]

histNext(old, new, kvAfter, t) ==
  IF ~hist.on THEN hist
  ELSE LET wrote == old.pc = "up_saveWeekStore"
           h1 == IF wrote THEN [hist EXCEPT !.prev = JNull, !.cur = JNull]
                 ELSE hist
           h2 == IF rolloverReturned(old, new)
                 THEN [h1 EXCEPT !.prev = h1.cur,
                                 !.cur = [n |-> new.nowWeek, kv |-> kvAfter]]
                 ELSE h1
           h3 == IF /\ old.pc \in {"idle", "done"}
                    /\ new.kind \in {"UPSERT", "POST"}
                    /\ new.pc = "up_loadWeekStore"
                 THEN [h2 EXCEPT !.best = bestAfter(h2.best, new, t)]
                 ELSE h2
       IN IF new.pc = "done" THEN [h3 EXCEPT !.call = << >>]
          ELSE IF old.pc \in {"idle", "done"} /\ new.kind = "GET"
               THEN [h3 EXCEPT !.call = kvAfter]
               ELSE h3

Hist(p) == hist' = histNext(procs[p], procs'[p], kv', now)

\* a handler has received the request req
HistReq(p, req) ==
  hist' = LET h == histNext(procs[p], procs'[p], kv', now)
          IN IF hist.inputs THEN [h EXCEPT !.req = req] ELSE h

RolloverPcs ==
  {"ro_getLast", "ens_getSnapshot", "ens_loadWeekStore", "ens_setSnapshot",
   "ens_readIndex", "ens_writeIndex", "ens_deleteWeekStore", "ro_setLast"}

\* the current week is answered from a snapshot too (<= for <)
isPastWeekOrCurrent(weekId, nowWeek) == weekId <= nowWeek

\* if (params.weekId < nowWeek)
isPastWeek(weekId, nowWeek) == weekId < nowWeek

\* where the caller of rolloverIfNeeded continues when it returns
afterRollover(pr) ==
  IF pr.kind = "GET"
  THEN [pr EXCEPT !.pc = IF isPastWeek(pr.weekId, pr.nowWeek)
                         THEN "view_readSnapshot"
                         ELSE "view_loadWeekStore",
                  !.last = 0, !.w = 0, !.target = 0]
  ELSE [pr EXCEPT !.pc = "done", !.last = 0, !.w = 0, !.target = 0]

\* rolloverIfNeeded(nowWeekId) up to its first storage operation
enterRollover(pr, nowWeekId) ==
  IF rolloverTarget(nowWeekId) < 0
  THEN afterRollover([pr EXCEPT !.nowWeek = nowWeekId])
  ELSE [pr EXCEPT !.pc = "ro_getLast", !.nowWeek = nowWeekId,
                  !.target = rolloverTarget(nowWeekId)]

\* POST answers from the returned store with no rolloverIfNeeded call
afterUpsertNoRollover(pr, store) ==
  IF pr.kind = "UPSERT"
  THEN [pr EXCEPT !.pc = "done", !.store = JNull, !.params = NoParams,
                  !.ret = [weekId |-> pr.weekId, store |-> store]]
  ELSE [pr EXCEPT !.pc = "done", !.store = JNull, !.params = NoParams,
                  !.ret = postResponse(pr.weekId, store, pr.params.address)]

\* upsertWeeklyBest has returned {weekId, store}: a direct caller has its
\* result, POST goes on to rolloverIfNeeded(currentWeekId(Date.now())) and
\* then answers from the returned store
afterUpsert(pr, store) ==
  IF pr.kind = "UPSERT"
  THEN [pr EXCEPT !.pc = "done", !.store = JNull, !.params = NoParams,
                  !.ret = [weekId |-> pr.weekId, store |-> store]]
  ELSE enterRollover(
         [pr EXCEPT !.store = JNull, !.params = NoParams,
                    !.ret = postResponse(pr.weekId, store, pr.params.address)],
         currentWeekId(now))

(***************************************************************************)
(* GET handler: getWeekLeaderboardView({weekId, nowWeekId}).               *)
(***************************************************************************)
WeekAbsent  == [given |-> FALSE, finite |-> FALSE, v |-> 0]
WeekNum(n)  == [given |-> TRUE, finite |-> TRUE, v |-> n]
WeekNaN     == [given |-> TRUE, finite |-> FALSE, v |-> 0]

\* Number.isFinite(requestedWeek) && requestedWeek >= 0
validWeek(weekParam) ==
  ~weekParam.given \/ (weekParam.finite /\ weekParam.v >= 0)

\* GET /api/leaderboard?week=..&account=.. up to its first storage operation
GET(p, weekParam, account) ==
  /\ FreeSlot(p)
  /\ LET nowWeek == currentWeekId(now)
         requestedWeek == IF weekParam.given THEN weekParam.v ELSE nowWeek
     IN IF ~validWeek(weekParam)
        THEN Set(p, [IdleProc EXCEPT !.pc = "done", !.kind = "GET",
                       !.ret = [status |-> 400, error |-> "Invalid week"]])
        ELSE Set(p, enterRollover([IdleProc EXCEPT !.kind = "GET",
                                     !.weekId = requestedWeek,
                                     !.account = account], nowWeek))
  /\ nreq' = nreq + 1
  /\ UNCHANGED <<kv, now, env>>
  /\ HistReq(p, [kind |-> "GET", week |-> weekParam, account |-> account])

\* GET with no account parameter
StartGET(p, weekParam) == GET(p, weekParam, AccountAbsent)

RoGetLast(p) ==
  /\ pcOf(p) = "ro_getLast"
  /\ LET pr == procs[p]
         last == getLastSnapWeekId
     IN IF last >= pr.target
        THEN Set(p, afterRollover(pr))
        ELSE Set(p, [pr EXCEPT !.pc = "ens_getSnapshot", !.last = last,
                               !.w = last + 1])
  /\ UNCHANGED <<kv, now, env, nreq>>
  /\ Hist(p)

EnsGetSnapshot(p) ==
  /\ pcOf(p) = "ens_getSnapshot"
  /\ LET pr == procs[p]
         existing == getJson(KEY_snapshot(pr.w))
     IN IF isSnapshot(existing, pr.w)
        THEN Set(p, [pr EXCEPT !.pc = "ro_setLast"])
        ELSE Set(p, [pr EXCEPT !.pc = "ens_loadWeekStore"])
  /\ UNCHANGED <<kv, now, env, nreq>>
  /\ Hist(p)

\* a week whose store has no entries is passed over with no snapshot
EnsLoadWeekStoreSkipEmpty(p) ==
  /\ pcOf(p) = "ens_loadWeekStore"
  /\ LET pr == procs[p]
         store == loadWeekStore(pr.w)
     IN IF store.entries = <<>>
        THEN Set(p, [pr EXCEPT !.pc = "ro_setLast"])
        ELSE Set(p, [pr EXCEPT !.pc = "ens_setSnapshot",
                       !.snap = buildSnapshot(pr.w, store, now)])
  /\ UNCHANGED <<kv, now, env, nreq>>
  /\ Hist(p)

\* the live week key is deleted as soon as the store is loaded, before the
\* snapshot is written
EnsLoadWeekStoreDeleting(p) ==
  /\ pcOf(p) = "ens_loadWeekStore"
  /\ LET pr == procs[p]
     IN Set(p, [pr EXCEPT !.pc = "ens_setSnapshot",
                  !.snap = buildSnapshot(pr.w, loadWeekStore(pr.w), now)])
  /\ kv' = delKey(KEY_weekStore(procs[p].w))
  /\ UNCHANGED <<now, env, nreq>>
  /\ Hist(p)

\* loadWeekStore, then the snapshot is built with createdAtMs: Date.now()
EnsLoadWeekStore(p) ==
  /\ pcOf(p) = "ens_loadWeekStore"
  /\ LET pr == procs[p]
     IN Set(p, [pr EXCEPT !.pc = "ens_setSnapshot",
                  !.snap = buildSnapshot(pr.w, loadWeekStore(pr.w), now)])
  /\ UNCHANGED <<kv, now, env, nreq>>
  /\ Hist(p)

EnsSetSnapshot(p) ==
  /\ pcOf(p) = "ens_setSnapshot"
  /\ kv' = setJson(KEY_snapshot(procs[p].w), procs[p].snap)
  /\ Set(p, [procs[p] EXCEPT !.pc = "ens_readIndex", !.snap = JNull])
  /\ UNCHANGED <<now, env, nreq>>
  /\ Hist(p)

EnsReadIndex(p) ==
  /\ pcOf(p) = "ens_readIndex"
  /\ LET pr == procs[p]
         idx == readSnapshotsIndex
     IN IF pr.w \notin SeqToSet(idx)
        THEN Set(p, [pr EXCEPT !.pc = "ens_writeIndex",
                               !.idx = Append(idx, pr.w)])
        ELSE Set(p, [pr EXCEPT !.pc = "ens_deleteWeekStore"])
  /\ UNCHANGED <<kv, now, env, nreq>>
  /\ Hist(p)

EnsWriteIndex(p) ==
  /\ pcOf(p) = "ens_writeIndex"
  /\ kv' = setJson(KEY_snapshotsIndex, JArr(uniqSorted(procs[p].idx)))
  /\ Set(p, [procs[p] EXCEPT !.pc = "ens_deleteWeekStore", !.idx = <<>>])
  /\ UNCHANGED <<now, env, nreq>>
  /\ Hist(p)

\* the live week key is left behind (the delete is forgotten)
EnsDeleteWeekStoreSkipped(p) ==
  /\ pcOf(p) = "ens_deleteWeekStore"
  /\ Set(p, [procs[p] EXCEPT !.pc = "ro_setLast"])
  /\ UNCHANGED <<kv, now, env, nreq>>
  /\ Hist(p)

EnsDeleteWeekStore(p) ==
  /\ pcOf(p) = "ens_deleteWeekStore"
  /\ kv' = delKey(KEY_weekStore(procs[p].w))
  /\ Set(p, [procs[p] EXCEPT !.pc = "ro_setLast"])
  /\ UNCHANGED <<now, env, nreq>>
  /\ Hist(p)

\* the loop steps two weeks at a time (w += 2)
RoSetLastSkipping(p) ==
  /\ pcOf(p) = "ro_setLast"
  /\ LET pr == procs[p]
     IN /\ kv' = setJson(KEY_lastSnapWeekId, JNum(loopLast(pr.w)))
        /\ IF pr.w + 2 <= pr.target
           THEN Set(p, [pr EXCEPT !.pc = "ens_getSnapshot",
                                  !.last = loopLast(pr.w), !.w = pr.w + 2])
           ELSE Set(p, afterRollover(pr))
  /\ UNCHANGED <<now, env, nreq>>
  /\ Hist(p)

RoSetLast(p) ==
  /\ pcOf(p) = "ro_setLast"
  /\ LET pr == procs[p]
     IN /\ kv' = setJson(KEY_lastSnapWeekId, JNum(loopLast(pr.w)))
        /\ IF pr.w + 1 <= pr.target
           THEN Set(p, [pr EXCEPT !.pc = "ens_getSnapshot",
                                  !.last = loopLast(pr.w), !.w = pr.w + 1])
           ELSE Set(p, afterRollover(pr))
  /\ UNCHANGED <<now, env, nreq>>
  /\ Hist(p)

\* with no snapshot to read, the past week is answered from its live store
ViewReadSnapshotFallingBack(p) ==
  /\ pcOf(p) = "view_readSnapshot"
  /\ LET pr == procs[p]
         v == getJson(KEY_snapshot(pr.weekId))
         window == weekWindowFromId(pr.weekId)
         store == loadWeekStore(pr.weekId)
         view == IF isSnapshot(v, pr.weekId)
                 THEN [kind |-> "snapshot", weekId |-> v.weekId,
                       weekStartMs |-> v.weekStartMs,
                       weekEndMs |-> v.weekEndMs, top |-> v.top,
                       totalPlayers |-> v.totalPlayers, myRank |-> JNull]
                 ELSE [kind |-> "snapshot", weekId |-> pr.weekId,
                       weekStartMs |-> window.startMs,
                       weekEndMs |-> window.endMs,
                       top |-> topEntries(store, TOP_N),
                       totalPlayers |-> Len(store.entries),
                       myRank |-> JNull]
     IN Set(p, [pr EXCEPT !.pc = "done", !.ret = view])
  /\ UNCHANGED <<kv, now, env, nreq>>
  /\ Hist(p)

ViewReadSnapshot(p) ==
  /\ pcOf(p) = "view_readSnapshot"
  /\ LET pr == procs[p]
         v == getJson(KEY_snapshot(pr.weekId))
         window == weekWindowFromId(pr.weekId)
         view == IF isSnapshot(v, pr.weekId)
                 THEN [kind |-> "snapshot", weekId |-> v.weekId,
                       weekStartMs |-> v.weekStartMs,
                       weekEndMs |-> v.weekEndMs, top |-> v.top,
                       totalPlayers |-> v.totalPlayers, myRank |-> JNull]
                 ELSE [kind |-> "snapshot", weekId |-> pr.weekId,
                       weekStartMs |-> window.startMs,
                       weekEndMs |-> window.endMs, top |-> <<>>,
                       totalPlayers |-> 0, myRank |-> JNull]
         myRank == IF accountGiven(pr.account)
                   THEN rankInTop(view.top, pr.account.s)
                   ELSE JNull
     IN Set(p, [pr EXCEPT !.pc = "done",
                          !.ret = [view EXCEPT !.myRank = myRank]])
  /\ UNCHANGED <<kv, now, env, nreq>>
  /\ Hist(p)

ViewLoadWeekStore(p) ==
  /\ pcOf(p) = "view_loadWeekStore"
  /\ LET pr == procs[p]
         store == loadWeekStore(pr.weekId)
         window == weekWindowFromId(pr.weekId)
         myRank == IF accountGiven(pr.account)
                   THEN rankOf(store, pr.account.s)
                   ELSE JNull
     IN Set(p, [pr EXCEPT !.pc = "done",
                          !.ret = [kind |-> "live", weekId |-> store.weekId,
                                   weekStartMs |-> window.startMs,
                                   weekEndMs |-> window.endMs,
                                   store |-> store, myRank |-> myRank]])
  /\ UNCHANGED <<kv, now, env, nreq>>
  /\ Hist(p)

(***************************************************************************)
(* upsertWeeklyBest, called by POST (which then runs rolloverIfNeeded at   *)
(* server time) or directly.                                               *)
(***************************************************************************)
startUpsert(kind, tsMs, address, score, txHash) ==
  [IdleProc EXCEPT !.pc = "up_loadWeekStore", !.kind = kind,
     !.weekId = weekIdFromTs(tsMs),
     !.params = [address |-> address, score |-> score, txHash |-> txHash]]

\* what client.getTransactionReceipt answers for the hash: nothing yet, a
\* reverted transaction, a successful one with no ScoreSubmitted log of the
\* scoreboard, or one with the event (player, score, timestamp in seconds)
ReceiptOf(player, score, tsSec) ==
  [found |-> TRUE, status |-> "success", event |-> TRUE, player |-> player,
   score |-> score, tsSec |-> tsSec]

postRejected(status, error) ==
  [IdleProc EXCEPT !.pc = "done", !.kind = "POST",
     !.ret = [status |-> status, error |-> error]]

\* POST /api/leaderboard with body {txHash} up to its first storage operation
POST(p, txHash, receipt) ==
  /\ FreeSlot(p)
  /\ Set(p, IF ~SCOREBOARD_ADDRESS
            THEN postRejected(400, "Scoreboard not configured")
            ELSE IF ~isTxHash(txHash)
            THEN postRejected(400, "Invalid txHash")
            ELSE IF ~receipt.found
            THEN postRejected(202, "pending")
            ELSE IF receipt.status # "success"
            THEN postRejected(400, "Transaction failed")
            ELSE IF ~receipt.event
            THEN postRejected(400, "No ScoreSubmitted event found in tx")
            ELSE startUpsert("POST", receipt.tsSec * 1000, receipt.player,
                             receipt.score, txHash))
  /\ nreq' = nreq + 1
  /\ UNCHANGED <<kv, now, env>>
  /\ HistReq(p, [kind |-> "POST", txHash |-> txHash, receipt |-> receipt])

\* POST whose transaction carries the event (address, score, tsMs / 1000)
StartPOST(p, tsMs, address, score, txHash) ==
  POST(p, txHash, ReceiptOf(address, score, tsMs \div 1000))

StartUPSERT(p, tsMs, address, score, txHash) ==
  /\ FreeSlot(p)
  /\ Set(p, startUpsert("UPSERT", tsMs, address, score, txHash))
  /\ nreq' = nreq + 1
  /\ UNCHANGED <<kv, now, env>>
  /\ Hist(p)

\* loadWeekStore, then the comparison; next.updatedAt and saveWeekStore's
\* store.updatedAt are Date.now() of the same synchronous stretch.  When
\* nothing is replaced there is no write and upsertWeeklyBest returns.
\* the entry is keyed by the address as submitted (no toLowerCase)
UpLoadWeekStoreCaseSensitive(p) ==
  /\ pcOf(p) = "up_loadWeekStore"
  /\ LET pr == procs[p]
         store == loadWeekStore(pr.weekId)
         k == pr.params.address
         next == [key |-> k, address |-> pr.params.address,
                  score |-> pr.params.score, txHash |-> pr.params.txHash,
                  updatedAt |-> now]
     IN IF shouldReplace(store.entries, k, pr.params.score)
        THEN Set(p, [pr EXCEPT !.pc = "up_saveWeekStore",
                       !.store = WeekStoreOf(store.weekId, now,
                                    putEntry(store.entries, k, next))])
        ELSE Set(p, afterUpsert(pr, store))
  /\ UNCHANGED <<kv, now, env, nreq>>
  /\ Hist(p)

UpLoadWeekStore(p) ==
  /\ pcOf(p) = "up_loadWeekStore"
  /\ LET pr == procs[p]
         store == loadWeekStore(pr.weekId)
         k == toLowerCase(pr.params.address)
         next == [key |-> k, address |-> pr.params.address,
                  score |-> pr.params.score, txHash |-> pr.params.txHash,
                  updatedAt |-> now]
     IN IF shouldReplace(store.entries, k, pr.params.score)
        THEN Set(p, [pr EXCEPT !.pc = "up_saveWeekStore",
                       !.store = WeekStoreOf(store.weekId, now,
                                    putEntry(store.entries, k, next))])
        ELSE Set(p, afterUpsert(pr, store))
  /\ UNCHANGED <<kv, now, env, nreq>>
  /\ Hist(p)

\* the save re-reads the persisted store and puts only its own entry into it
UpSaveWeekStoreMerging(p) ==
  /\ pcOf(p) = "up_saveWeekStore"
  /\ LET pr == procs[p]
         k == toLowerCase(pr.params.address)
         mine == pr.store.entries[entryIndex(pr.store.entries, k)]
         merged == WeekStoreOf(pr.store.weekId, pr.store.updatedAt,
                     putEntry(loadWeekStore(pr.store.weekId).entries, k, mine))
     IN /\ kv' = setJson(KEY_weekStore(pr.store.weekId), merged)
        /\ Set(p, afterUpsert(pr, merged))
  /\ UNCHANGED <<now, env, nreq>>
  /\ Hist(p)

UpSaveWeekStore(p) ==
  /\ pcOf(p) = "up_saveWeekStore"
  /\ kv' = setJson(KEY_weekStore(procs[p].store.weekId), procs[p].store)
  /\ Set(p, afterUpsert(procs[p], procs[p].store))
  /\ UNCHANGED <<now, env, nreq>>
  /\ Hist(p)

\* a storage operation of rolloverIfNeeded throws (or the function instance
\* is killed): the request ends there, the handlers answer 500 (errorJson)
StorageFailure(p) ==
  /\ pcOf(p) \in RolloverPcs
  /\ Set(p, [IdleProc EXCEPT !.pc = "done", !.kind = procs[p].kind,
               !.ret = [status |-> 500, error |-> "Internal error"]])
  /\ UNCHANGED <<kv, now, env, nreq>>
  /\ Hist(p)

(***************************************************************************)
(* Time.                                                                   *)
(***************************************************************************)
TickMs ==
  /\ (now - getGenesisMs) % getWeekMs < MaxSubTicks
  /\ now' = now + 1
  /\ UNCHANGED <<kv, env, procs, nreq, hist>>

TickWeek ==
  /\ currentWeekId(now) < MaxWeek
  /\ now' = weekWindowFromId(currentWeekId(now)).endMs
  /\ UNCHANGED <<kv, env, procs, nreq, hist>>

(***************************************************************************)
(* Views of the persisted state used by the properties.                    *)
(***************************************************************************)
Weeks == 0..(MaxWeek + 1)

SnapshotOf(w)  == getJson(KEY_snapshot(w))
HasSnapshot(w) == isSnapshot(SnapshotOf(w), w)
LiveOf(w)      == getJson(KEY_weekStore(w))
HasLive(w)     == isWeekStore(LiveOf(w), w)
Watermark      == getLastSnapWeekId
InRollover(p)  == pcOf(p) \in RolloverPcs

(***************************************************************************)
(* Specifications.                                                         *)
(***************************************************************************)
RolloverStep(p) ==
  \/ RoGetLast(p) \/ EnsGetSnapshot(p) \/ EnsLoadWeekStore(p)
  \/ EnsSetSnapshot(p) \/ EnsReadIndex(p) \/ EnsWriteIndex(p)
  \/ EnsDeleteWeekStore(p) \/ RoSetLast(p)

Step(p) ==
  \/ RolloverStep(p)
  \/ ViewReadSnapshot(p) \/ ViewLoadWeekStore(p)
  \/ UpLoadWeekStore(p) \/ UpSaveWeekStore(p)

\* LEADERBOARD_WEEK_MS=10000, genesis at the epoch
InitEnv ==
  env = [LEADERBOARD_WEEK_MS |-> EnvNum(10000),
         LEADERBOARD_WEEK_SECONDS |-> EnvUnset, genesisMs |-> 0,
         NEXT_PUBLIC_SCOREBOARD_ADDRESS |-> TRUE]

\* empty storage
Init ==
  /\ kv = << >>
  /\ now = 0
  /\ InitEnv
  /\ procs = [p \in Procs |-> IdleProc]
  /\ nreq = 0
  /\ hist = NoHist

(***************************************************************************)
(* Spec: requests served concurrently, interleaved at every storage        *)
(* operation.                                                              *)
(***************************************************************************)
EventTs == {0, 10000}

Next ==
  \/ \E p \in Procs : \E wp \in {WeekAbsent, WeekNum(0)} :
        nreq < MaxRequests /\ StartGET(p, wp)
  \/ \E p \in Procs : \E ts \in EventTs :
        /\ nreq < MaxRequests
        /\ StartPOST(p, ts, AddrPool[1], 1, TxPool[1])
  \/ \E p \in Procs : Step(p)
  \/ TickWeek

Spec == Init /\ [][Next]_vars

(***************************************************************************)
(* SpecSeq: requests served one at a time (a request starts only when no   *)
(* other is in flight), with the history recorded.                         *)
(***************************************************************************)
InitSeq ==
  /\ kv = << >>
  /\ now = 0
  /\ InitEnv
  /\ procs = [p \in Procs |-> IdleProc]
  /\ nreq = 0
  /\ hist = [NoHist EXCEPT !.on = TRUE]

NextSeq ==
  \/ \E p \in Procs : \E wp \in {WeekAbsent, WeekNum(0), WeekNaN} :
        nreq < MaxSeqRequests /\ AllIdle /\ StartGET(p, wp)
  \/ \E p \in Procs : \E ts \in EventTs : \E s \in 1..MaxScore :
        /\ nreq < MaxSeqRequests
        /\ AllIdle
        /\ StartPOST(p, ts, AddrPool[1], s, TxPool[1])
  \/ \E p \in Procs : Step(p)
  \/ TickMs
  \/ TickWeek

SpecSeq == InitSeq /\ [][NextSeq]_vars

(***************************************************************************)
(* SpecUpsert: upsertWeeklyBest called directly, one call at a time.       *)
(***************************************************************************)
NextUpsert ==
  \/ \E p \in Procs : \E ts \in EventTs : \E a \in Addrs(2) :
     \E s \in 1..MaxScore :
        /\ nreq < MaxSeqRequests
        /\ AllIdle
        /\ StartUPSERT(p, ts, a, s, TxPool[1])
  \/ \E p \in Procs : UpLoadWeekStore(p) \/ UpSaveWeekStore(p)
  \/ TickMs
  \/ TickWeek

SpecUpsert == InitSeq /\ [][NextUpsert]_vars

(***************************************************************************)
(* SpecPlayers: upsertWeeklyBest called directly, one call at a time, for  *)
(* two players whose addresses come in lower and in mixed case.            *)
(***************************************************************************)
NextPlayers ==
  \/ \E p \in Procs : \E ts \in EventTs : \E a \in Addrs(4) :
     \E s \in 1..MaxScore :
        /\ nreq < MaxSeqRequests
        /\ AllIdle
        /\ StartUPSERT(p, ts, a, s, TxPool[1])
  \/ \E p \in Procs : UpLoadWeekStore(p) \/ UpSaveWeekStore(p)
  \/ TickWeek

SpecPlayers == InitSeq /\ [][NextPlayers]_vars

(***************************************************************************)
(* SpecLost: upsertWeeklyBest called directly for two players, the calls   *)
(* served concurrently.                                                    *)
(***************************************************************************)
NextLost ==
  \/ \E p \in Procs : \E ts \in EventTs :
     \E a \in {AddrPool[1], AddrPool[3]} : \E s \in 1..MaxScore :
        /\ nreq < MaxRequests
        /\ StartUPSERT(p, ts, a, s, TxPool[1])
  \/ \E p \in Procs : UpLoadWeekStore(p) \/ UpSaveWeekStore(p)
  \/ TickWeek

SpecLost == Init /\ [][NextLost]_vars

(***************************************************************************)
(* SpecResubmit: two upsertWeeklyBest calls for two players of week 0 are  *)
(* served concurrently; every later request is served alone: GET requests  *)
(* (each runs rolloverIfNeeded), and a player whose score is on no board   *)
(* of week 0 submits it again with the same address, score and timestamp.  *)
(***************************************************************************)
MaxResubmitRequests == 5  \* requests received in one behaviour

\* the event both players submit: its timestamp and score
RaceEvent == [tsMs |-> 0, score |-> 1]
RacePlayers == <<AddrPool[1], AddrPool[3]>>

\* the player's score is neither in the live store nor in the snapshot of
\* the event's week
dropped(address) ==
  LET w == weekIdFromTs(RaceEvent.tsMs)
      k == toLowerCase(address)
  IN /\ entryIndex(loadWeekStore(w).entries, k) = 0
     /\ HasSnapshot(w) => rankInTop(SnapshotOf(w).top, address) = JNull

\* upsertWeeklyBest({tsMs, address, score, txHash}) called again
Resubmit(p, address) ==
  /\ FreeSlot(p)
  /\ dropped(address)
  /\ Set(p, startUpsert("UPSERT", RaceEvent.tsMs, address, RaceEvent.score, TxPool[1]))
  /\ nreq' = nreq + 1
  /\ UNCHANGED <<kv, now, env>>
  /\ hist' = [histNext(procs[p], procs'[p], kv', now)
                EXCEPT !.resub = [weekId |-> weekIdFromTs(RaceEvent.tsMs),
                                  address |-> address,
                                  score |-> RaceEvent.score]]

NextResubmit ==
  \/ \E p \in Procs :
        /\ nreq < Len(RacePlayers)
        /\ StartUPSERT(p, RaceEvent.tsMs, RacePlayers[nreq + 1], RaceEvent.score, TxPool[1])
  \/ \E p \in Procs : \E wp \in {WeekAbsent, WeekNum(weekIdFromTs(RaceEvent.tsMs))} :
        /\ nreq >= Len(RacePlayers)
        /\ nreq < MaxResubmitRequests
        /\ AllIdle
        /\ StartGET(p, wp)
  \/ \E p \in Procs : \E i \in DOMAIN RacePlayers :
        /\ nreq >= Len(RacePlayers)
        /\ nreq < MaxResubmitRequests
        /\ AllIdle
        /\ Resubmit(p, RacePlayers[i])
  \/ \E p \in Procs : Step(p)
  \/ TickWeek

SpecResubmit == Init /\ [][NextResubmit]_vars

(***************************************************************************)
(* SpecCrash: requests served one at a time, every event stamped in the    *)
(* current week or later, and a rollover may fail at any storage           *)
(* operation.                                                              *)
(***************************************************************************)
NextCrash ==
  \/ \E p \in Procs : \E wp \in {WeekAbsent, WeekNum(0)} :
        nreq < MaxSeqRequests /\ AllIdle /\ StartGET(p, wp)
  \/ \E p \in Procs : \E ts \in EventTs :
        /\ nreq < MaxSeqRequests
        /\ AllIdle
        /\ weekIdFromTs(ts) >= currentWeekId(now)
        /\ StartPOST(p, ts, AddrPool[1], 1, TxPool[1])
  \/ \E p \in Procs : Step(p)
  \/ \E p \in Procs : StorageFailure(p)
  \/ TickWeek

SpecCrash == InitSeq /\ [][NextCrash]_vars

(***************************************************************************)
(* SpecView: requests served one at a time, GET asking for any week id:    *)
(* absent, past, current, future, negative or not a number.                *)
(***************************************************************************)
WeekParams ==
  {WeekAbsent, WeekNaN, WeekNum(-1)} \cup {WeekNum(w) : w \in 0..MaxWeek}

NextView ==
  \/ \E p \in Procs : \E wp \in WeekParams :
        nreq < MaxSeqRequests /\ AllIdle /\ StartGET(p, wp)
  \/ \E p \in Procs : \E ts \in EventTs :
        /\ nreq < MaxSeqRequests
        /\ AllIdle
        /\ \E a \in {AddrPool[1], AddrPool[3]} : \E sc \in 1..MaxScore :
             StartPOST(p, ts, a, sc, TxPool[1])
  \/ \E p \in Procs : Step(p)
  \/ TickWeek

SpecView == InitSeq /\ [][NextView]_vars

(***************************************************************************)
(* SpecInput: requests served one at a time, with any input: a week id     *)
(* that is absent, past, current, future, negative or not a number; an     *)
(* account that is absent, empty, a 20-byte address or something else; a   *)
(* txHash that is absent or a string matching the pattern or not; a        *)
(* receipt of every kind; the scoreboard address configured or not.        *)
(***************************************************************************)
Accounts ==
  {AccountAbsent, AccountOf(<<>>), AccountOf(hexString("a", 40)),
   AccountOf(hexString("A", 40)), AccountOf(<<"0", "x", "a">>),
   AccountOf(<<"n", "o", "p", "e">>)}

TxInputs ==
  {<<>>, TxPool[1], TxPool[2], hexString("g", 64),
   SubSeq(TxPool[1], 1, 65), TxPool[1] \o <<"1">>,
   <<"0", "X">> \o SubSeq(TxPool[1], 3, 66),
   [TxPool[1] EXCEPT ![66] = "g"]}

Receipts ==
  {[ReceiptOf(<<>>, 0, 0) EXCEPT !.found = FALSE],
   [ReceiptOf(<<>>, 0, 0) EXCEPT !.status = "reverted"],
   [ReceiptOf(<<>>, 0, 0) EXCEPT !.event = FALSE]}
    \cup {ReceiptOf(hexString("a", 40), 1, tsSec) : tsSec \in {0, 10}}

InitInput ==
  /\ kv = << >>
  /\ now = 0
  /\ \E sb \in BOOLEAN :
       env = [LEADERBOARD_WEEK_MS |-> EnvNum(10000),
              LEADERBOARD_WEEK_SECONDS |-> EnvUnset, genesisMs |-> 0,
              NEXT_PUBLIC_SCOREBOARD_ADDRESS |-> sb]
  /\ procs = [p \in Procs |-> IdleProc]
  /\ nreq = 0
  /\ hist = [NoHist EXCEPT !.inputs = TRUE]

NextInput ==
  \/ \E p \in Procs : \E wp \in WeekParams : \E account \in Accounts :
        nreq < MaxSeqRequests /\ AllIdle /\ GET(p, wp, account)
  \/ \E p \in Procs : \E txHash \in TxInputs : \E receipt \in Receipts :
        nreq < MaxSeqRequests /\ AllIdle /\ POST(p, txHash, receipt)
  \/ \E p \in Procs : Step(p)
  \/ TickWeek

SpecInput == InitInput /\ [][NextInput]_vars

(***************************************************************************)
(* SpecRank: topEntries(store, limit) called on any store of up to         *)
(* MaxEntries entries, with scores 0..MaxScore and updatedAt               *)
(* 0..MaxSubTicks, and any limit from 0 to above the store's size, or the  *)
(* limit of the snapshots.                                                 *)
(***************************************************************************)
RankAddrs == << <<"0", "x", "a">>, <<"0", "x", "b">>, <<"0", "x", "c">>,
                <<"0", "x", "d">>, <<"0", "x", "e">> >>

rankEntry(i, score, t) ==
  [key |-> toLowerCase(RankAddrs[i]), address |-> RankAddrs[i],
   score |-> score, txHash |-> TxPool[1], updatedAt |-> t]

rankStore(n, sc, at) ==
  WeekStoreOf(0, 0, [i \in 1..n |-> rankEntry(i, sc[i], at[i])])

RankLimits == (0..(MaxEntries + 1)) \cup {TOP_N}

InitRank ==
  /\ \E n \in 0..Min2(MaxEntries, Len(RankAddrs)) :
     \E sc \in [1..n -> 0..MaxScore] : \E at \in [1..n -> 0..MaxSubTicks] :
       kv = [k \in {KEY_weekStore(0)} |-> rankStore(n, sc, at)]
  /\ now = 0
  /\ InitEnv
  /\ procs = [p \in Procs |-> IdleProc]
  /\ nreq = 0
  /\ hist = NoHist

\* topEntries(store, limit) on the persisted store of week 0
CallTopEntries(p, limit) ==
  /\ FreeSlot(p)
  /\ nreq = 0
  /\ Set(p, [IdleProc EXCEPT !.pc = "done", !.kind = "TOP",
               !.ret = [limit |-> limit,
                        top |-> topEntries(loadWeekStore(0), limit)]])
  /\ nreq' = nreq + 1
  /\ UNCHANGED <<kv, now, env>>
  /\ Hist(p)

NextRank == \E p \in Procs : \E limit \in RankLimits : CallTopEntries(p, limit)

SpecRank == InitRank /\ [][NextRank]_vars

(***************************************************************************)
(* SpecRankOf: rankOf(store, address) called on the persisted store of     *)
(* week 0, which holds up to three entries (addresses in mixed case) or    *)
(* one entry more than 5000, for an address in either case that the store  *)
(* holds or not.                                                           *)
(***************************************************************************)
RANK_CAP == 5000

\* the address 0x followed by the four decimal digits of i
numberedAddress(i) ==
  <<"0", "x", ToString(i \div 1000), ToString((i \div 100) % 10),
    ToString((i \div 10) % 10), ToString(i % 10)>>

\* RANK_CAP + 1 players, player i with score i
crowdedStore ==
  WeekStoreOf(0, 0,
    [i \in 1..(RANK_CAP + 1) |->
       [key |-> numberedAddress(i), address |-> numberedAddress(i),
        score |-> i, txHash |-> TxPool[1], updatedAt |-> 0]])

InitRankOf ==
  /\ \/ \E n \in 0..Min2(MaxEntries - 1, Len(AddrPool) - 1) :
        \E sc \in [1..n -> 0..MaxScore] : \E at \in [1..n -> 0..MaxSubTicks] :
          kv = [k \in {KEY_weekStore(0)} |->
                  WeekStoreOf(0, 0,
                    [i \in 1..n |->
                       [key |-> toLowerCase(RankAddrs[i]),
                        address |-> IF i = 2 THEN AddrPool[4]
                                    ELSE RankAddrs[i],
                        score |-> sc[i], txHash |-> TxPool[1],
                        updatedAt |-> at[i]]])]
     \/ kv = [k \in {KEY_weekStore(0)} |-> crowdedStore]
  /\ now = 0
  /\ InitEnv
  /\ procs = [p \in Procs |-> IdleProc]
  /\ nreq = 0
  /\ hist = NoHist

RankQueries ==
  {RankAddrs[1], AddrPool[2], RankAddrs[2], AddrPool[4], RankAddrs[3],
   RankAddrs[5], numberedAddress(1), numberedAddress(2),
   numberedAddress(RANK_CAP + 1)}

\* rankOf(store, address) on the persisted store of week 0
CallRankOf(p, address) ==
  /\ FreeSlot(p)
  /\ nreq = 0
  /\ Set(p, [IdleProc EXCEPT !.pc = "done", !.kind = "RANK",
               !.ret = [address |-> address,
                        rank |-> rankOf(loadWeekStore(0), address)]])
  /\ nreq' = nreq + 1
  /\ UNCHANGED <<kv, now, env>>
  /\ Hist(p)

NextRankOf == \E p \in Procs : \E a \in RankQueries : CallRankOf(p, a)

SpecRankOf == InitRankOf /\ [][NextRankOf]_vars

(***************************************************************************)
(* SpecScenario: genesis 0 and a configured window length W; score 10 for  *)
(* address A at tsMs = W/2, then score 20 for address B at tsMs = 3W/2,    *)
(* by upsertWeeklyBest; then, with the clock at 2W+1, views of weeks 0, 1  *)
(* and 2 in any order.  W is 1000 or 10000.                                *)
(***************************************************************************)
configuredMs == env.LEADERBOARD_WEEK_MS.v

ScenarioTimes ==
  {0, configuredMs \div 2, (3 * configuredMs) \div 2, 2 * configuredMs + 1}

InitScenario ==
  /\ kv = << >>
  /\ now = 0
  /\ \E ms \in {1000, 10000} :
       env = [LEADERBOARD_WEEK_MS |-> EnvNum(ms),
              LEADERBOARD_WEEK_SECONDS |-> EnvUnset, genesisMs |-> 0,
              NEXT_PUBLIC_SCOREBOARD_ADDRESS |-> TRUE]
  /\ procs = [p \in Procs |-> IdleProc]
  /\ nreq = 0
  /\ hist = [NoHist EXCEPT !.on = TRUE]

\* Date.now() moves on to a later time of the scenario
ScenarioClock ==
  /\ \E t \in ScenarioTimes : t > now /\ now' = t
  /\ UNCHANGED <<kv, env, procs, nreq, hist>>

NextScenario ==
  \/ \E p \in Procs :
        /\ nreq = 0
        /\ StartUPSERT(p, configuredMs \div 2, AddrPool[1], 10, TxPool[1])
  \/ \E p \in Procs :
        /\ nreq = 1
        /\ AllIdle
        /\ StartUPSERT(p, (3 * configuredMs) \div 2, AddrPool[3], 20, TxPool[2])
  \/ \E p \in Procs : \E w \in 0..2 :
        /\ nreq >= 2
        /\ nreq < 2 + MaxSeqRequests
        /\ AllIdle
        /\ now = 2 * configuredMs + 1
        /\ StartGET(p, WeekNum(w))
  \/ \E p \in Procs : Step(p)
  \/ ScenarioClock

SpecScenario == InitScenario /\ [][NextScenario]_vars

(***************************************************************************)
(* SpecClock: weekIdFromTs and weekWindowFromId called directly, under a   *)
(* genesis at or after the epoch and a window length configured in ms, in  *)
(* seconds, below the floor, zero, negative, not as a number, or not at    *)
(* all.  Timestamps                                                        *)
(* lie around every half window from before genesis on.                    *)
(***************************************************************************)
ClockEnvs ==
  {[LEADERBOARD_WEEK_MS |-> ms, LEADERBOARD_WEEK_SECONDS |-> sec,
    genesisMs |-> g, NEXT_PUBLIC_SCOREBOARD_ADDRESS |-> TRUE] :
     ms \in {EnvUnset, EnvNaN, EnvNum(MIN_WEEK_MS), EnvNum(MIN_WEEK_MS - 1),
             EnvNum(0), EnvNum(-MIN_WEEK_MS)},
     sec \in {EnvUnset, EnvNaN, EnvNum(20), EnvNum(9), EnvNum(0),
              EnvNum(-20)},
     g \in {0, 5000}}

ClockTs ==
  {getGenesisMs + k * (getWeekMs \div 2) + d :
     k \in (-1)..MaxWeek, d \in {-1, 0, 1}}

\* week ids whose window and successor window end within 32-bit integers
ClockWeeks == IF getWeekMs = DEFAULT_WEEK_MS THEN 0..1 ELSE 0..(MaxWeek + 1)

InitClock ==
  /\ kv = << >>
  /\ now = 0
  /\ env \in ClockEnvs
  /\ procs = [p \in Procs |-> IdleProc]
  /\ nreq = 0
  /\ hist = NoHist

\* weekIdFromTs(t1) and weekIdFromTs(t2)
CallWeekIdFromTs(p, t1, t2) ==
  /\ FreeSlot(p)
  /\ nreq = 0
  /\ Set(p, [IdleProc EXCEPT !.pc = "done", !.kind = "WEEKID",
               !.ret = [t1 |-> t1, t2 |-> t2, id1 |-> weekIdFromTs(t1),
                        id2 |-> weekIdFromTs(t2)]])
  /\ nreq' = nreq + 1
  /\ UNCHANGED <<kv, now, env>>
  /\ Hist(p)

\* weekWindowFromId(w), weekWindowFromId(w + 1) and
\* weekWindowFromId(weekIdFromTs(t))
CallWeekWindowFromId(p, w, t) ==
  /\ FreeSlot(p)
  /\ nreq = 0
  /\ Set(p, [IdleProc EXCEPT !.pc = "done", !.kind = "WINDOW",
               !.ret = [w |-> w, window |-> weekWindowFromId(w),
                        next |-> weekWindowFromId(w + 1), t |-> t,
                        windowOfT |-> weekWindowFromId(weekIdFromTs(t))]])
  /\ nreq' = nreq + 1
  /\ UNCHANGED <<kv, now, env>>
  /\ Hist(p)

NextClock ==
  \/ \E p \in Procs : \E t1, t2 \in ClockTs : CallWeekIdFromTs(p, t1, t2)
  \/ \E p \in Procs : \E w \in ClockWeeks : \E t \in ClockTs :
        CallWeekWindowFromId(p, w, t)

SpecClock == InitClock /\ [][NextClock]_vars

(***************************************************************************)
(* SpecLoad: loadWeekStore called directly on a storage whose week-0 key   *)
(* is missing, well-formed or malformed: not an object, an object of       *)
(* another week, an object with no entries, or with entries that are null, *)
(* a number or an array.                                                   *)
(***************************************************************************)
LoadSeeds ==
  {JNull, JNum(7), JArr(<<>>),
   WeekStoreOf(1, 0, <<rankEntry(1, 1, 0)>>),
   [type |-> "object", weekId |-> 0, updatedAt |-> 0],
   [type |-> "object", weekId |-> 0, updatedAt |-> 0, entries |-> JNull,
    entriesType |-> "null"],
   [type |-> "object", weekId |-> 0, updatedAt |-> 0, entries |-> JNum(1),
    entriesType |-> "number"],
   [type |-> "object", weekId |-> 0, updatedAt |-> 0, entries |-> <<>>,
    entriesType |-> "object", entriesIsArray |-> TRUE],
   WeekStoreOf(0, 0, <<>>),
   WeekStoreOf(0, 0, <<rankEntry(1, 1, 0)>>)}

InitLoad ==
  /\ \E v \in LoadSeeds :
       kv = IF v = JNull THEN << >> ELSE [k \in {KEY_weekStore(0)} |-> v]
  /\ now = 0
  /\ InitEnv
  /\ procs = [p \in Procs |-> IdleProc]
  /\ nreq = 0
  /\ hist = NoHist

\* loadWeekStore(weekId) up to its storage read
CallLoadWeekStore(p, weekId) ==
  /\ FreeSlot(p)
  /\ Set(p, [IdleProc EXCEPT !.pc = "load_getJson", !.kind = "LOAD",
               !.weekId = weekId])
  /\ nreq' = nreq + 1
  /\ UNCHANGED <<kv, now, env>>
  /\ Hist(p)

\* const existing = await getJson(key), and the return
LoadGetJson(p) ==
  /\ pcOf(p) = "load_getJson"
  /\ Set(p, [procs[p] EXCEPT !.pc = "done",
               !.ret = loadWeekStore(procs[p].weekId)])
  /\ UNCHANGED <<kv, now, env, nreq>>
  /\ Hist(p)

NextLoad ==
  \/ \E p \in Procs : \E w \in 0..1 :
        nreq < MaxSeqRequests /\ AllIdle /\ CallLoadWeekStore(p, w)
  \/ \E p \in Procs : LoadGetJson(p)
  \/ TickMs

SpecLoad == InitLoad /\ [][NextLoad]_vars

(***************************************************************************)
(* SpecAbsent: GET requests served one at a time over storage that holds   *)
(* data from before: a watermark, and under week 0's snapshot key nothing, *)
(* something that is no snapshot of week 0, or a snapshot; week 0 may have *)
(* a live store as well.                                                   *)
(***************************************************************************)
SnapshotSeeds ==
  {JNull, JNum(7),
   [type |-> "object", weekId |-> 0, totalPlayers |-> 1],
   buildSnapshot(1, WeekStoreOf(1, 0, <<rankEntry(1, 1, 0)>>), 0),
   buildSnapshot(0, WeekStoreOf(0, 0, <<rankEntry(2, 2, 0)>>), 0)}

LiveSeeds == {JNull, WeekStoreOf(0, 0, <<rankEntry(1, 1, 0)>>)}

WatermarkSeeds == {JNull, JNum(0), JNum(1)}

\* the storage holding the values that are not null under their keys
storageOf(snap, live, last) ==
  LET m == [k \in {KEY_snapshot(0), KEY_weekStore(0), KEY_lastSnapWeekId}
              |-> IF k = KEY_snapshot(0) THEN snap
                  ELSE IF k = KEY_weekStore(0) THEN live ELSE last]
  IN [k \in {x \in DOMAIN m : m[x] # JNull} |-> m[k]]

InitAbsent ==
  /\ now = 0
  /\ InitEnv
  /\ \E snap \in SnapshotSeeds : \E live \in LiveSeeds :
     \E last \in WatermarkSeeds :
       kv = storageOf(snap, live, last)
  /\ procs = [p \in Procs |-> IdleProc]
  /\ nreq = 0
  /\ hist = NoHist

NextAbsent ==
  \/ \E p \in Procs : \E wp \in {WeekAbsent, WeekNum(0), WeekNum(1)} :
     \E account \in {AccountAbsent, AccountOf(AddrPool[1])} :
        nreq < MaxSeqRequests /\ AllIdle /\ GET(p, wp, account)
  \/ \E p \in Procs :
        RolloverStep(p) \/ ViewReadSnapshot(p) \/ ViewLoadWeekStore(p)
  \/ TickWeek

SpecAbsent == InitAbsent /\ [][NextAbsent]_vars

(***************************************************************************)
(* SpecRace: rolloverIfNeeded calls for one and the same nowWeekId, served *)
(* concurrently, with no upsert: the behaviour starts after scores were    *)
(* submitted in week 0 and the clock has passed into a later week with no  *)
(* request in between.                                                     *)
(***************************************************************************)
raceEntry(address, score, t) ==
  [key |-> toLowerCase(address), address |-> address, score |-> score,
   txHash |-> TxPool[1], updatedAt |-> t]

InitRace ==
  /\ \E n \in 1..2 :
       kv = [k \in {KEY_weekStore(0)} |->
               WeekStoreOf(0, n - 1,
                 [i \in 1..n |-> raceEntry(AddrPool[2 * i - 1], i, i - 1)])]
  /\ now \in {10000, 20000}
  /\ InitEnv
  /\ procs = [p \in Procs |-> IdleProc]
  /\ nreq = 0
  /\ hist = [NoHist EXCEPT !.base = kv]

NextRace ==
  \/ \E p \in Procs : nreq < MaxRequests /\ StartGET(p, WeekAbsent)
  \/ \E p \in Procs : RolloverStep(p) \/ ViewLoadWeekStore(p)

SpecRace == InitRace /\ [][NextRace]_vars

(***************************************************************************)
(* Notifications: the records and the due sorted set of                    *)
(* notificationsStore, the webhook route and the cron route.  Times are    *)
(* unix seconds, Math.floor(Date.now() / 1000).  pushEvent appends to the  *)
(* debug list dw:notif:events, which none of these handlers reads; the     *)
(* list is not part of the state.                                          *)
(***************************************************************************)
NOTIF_KEYS_dueZ == "dw:notif:due"

NOTIF_KEYS_user(fid, appFid) ==
  "dw:notif:user:" \o ToString(fid) \o ":" \o ToString(appFid)

NOTIF_KEYS_member(fid, appFid) == ToString(fid) \o ":" \o ToString(appFid)

\* the (fid, appFid) pairs webhooks arrive for
NotifPairs == {<<1, 1>>, <<2, 1>>}

\* member.split(":"), both parts numbers; null for anything else
parseMemberId(member) ==
  IF \E pair \in NotifPairs : NOTIF_KEYS_member(pair[1], pair[2]) = member
  THEN LET pair == CHOOSE pair \in NotifPairs :
                     NOTIF_KEYS_member(pair[1], pair[2]) = member
       IN [fid |-> pair[1], appFid |-> pair[2]]
  ELSE JNull

nowSec == now \div 1000

CADENCE_SECONDS == 3600  \* cadenceHours * 60 * 60
RETRY_BUMP      == 600   \* now + 10 * 60
CRON_BATCH      == 25    \* zrange count

\* x is Number(process.env.NOTIF_CADENCE_HOURS ?? "6")
clampCadenceHours(x) ==
  IF x.num /\ x.v \in {1, 6, 12} THEN x.v ELSE 6

envCadenceHours ==
  clampCadenceHours(IF env.NOTIF_CADENCE_HOURS.set
                    THEN env.NOTIF_CADENCE_HOURS ELSE EnvNum(6))

\* JSON.stringify(rec) as stored, and JSON.parse of it
JStr(rec) == [type |-> "string", json |-> rec]
JSONparse(raw) == IF raw.type = "string" THEN raw.json ELSE JNull

\* the sorted set under dw:notif:due: member -> score
dueZ ==
  LET v == getJson(NOTIF_KEYS_dueZ)
  IN IF v.type = "zset" THEN v.m ELSE << >>

\* redis.zadd(dueZ, {score, member})
zadd(member, score) ==
  setJson(NOTIF_KEYS_dueZ,
          [type |-> "zset",
           m |-> [x \in (DOMAIN dueZ) \cup {member} |->
                    IF x = member THEN score ELSE dueZ[x]]])

\* redis.zrem(dueZ, member); Redis drops the key of an empty sorted set
zrem(member) ==
  LET rest == (DOMAIN dueZ) \ {member}
  IN IF rest = {} THEN delKey(NOTIF_KEYS_dueZ)
     ELSE setJson(NOTIF_KEYS_dueZ,
                  [type |-> "zset", m |-> [x \in rest |-> dueZ[x]]])

\* the order of a sorted set: by score, then by member
memberBefore(a, b) ==
  LET pa == parseMemberId(a)
      pb == parseMemberId(b)
  IN \/ dueZ[a] < dueZ[b]
     \/ /\ dueZ[a] = dueZ[b]
        /\ \/ pa.fid < pb.fid
           \/ pa.fid = pb.fid /\ pa.appFid < pb.appFid

RECURSIVE zorder(_)
zorder(S) ==
  IF S = {} THEN <<>>
  ELSE LET m == CHOOSE m \in S : \A o \in S \ {m} : memberBefore(m, o)
       IN <<m>> \o zorder(S \ {m})

\* redis.zrange(dueZ, min, max, {byScore: true, offset: 0, count})
zrangeByScore(min, max, count) ==
  sliceTo(zorder({m \in DOMAIN dueZ : min <= dueZ[m] /\ dueZ[m] <= max}),
          count)

\* loadNotification / redis.get(NOTIF_KEYS.user(fid, appFid)) parsed
recordOf(fid, appFid) == JSONparse(getJson(NOTIF_KEYS_user(fid, appFid)))

hasRecord(fid, appFid) == recordOf(fid, appFid) # JNull

hasMember(fid, appFid) == NOTIF_KEYS_member(fid, appFid) \in DOMAIN dueZ

(***************************************************************************)
(* Request slots of the notification handlers.                             *)
(***************************************************************************)
NoCounts == [due |-> 0, sent |-> 0, invalid |-> 0, rateLimited |-> 0]

NotifIdle ==
  [pc |-> "idle", kind |-> "none", fid |-> 0, appFid |-> 0, now |-> 0,
   cadenceHours |-> 0, details |-> JNull, rec |-> JNull, members |-> <<>>,
   memberId |-> "", result |-> JNull, counts |-> NoCounts, ret |-> JNull]

\* the notification history the properties use: per member the run time and
\* cadence of its latest successful send, and the pairs unsubscribed and not
\* registered again since
notifHist(h, sent, removed) == [h EXCEPT !.sent = sent, !.removed = removed]

(***************************************************************************)
(* upsertNotification(redis, {fid, details, cadenceHours, now}).           *)
(***************************************************************************)
\* nextSendAt is computed anew on every call
UnGetRescheduling(p) ==
  /\ pcOf(p) = "un_get"
  /\ LET pr == procs[p]
         existing == recordOf(pr.fid, pr.appFid)
         rec == [fid |-> pr.fid, appFid |-> pr.appFid,
                 details |-> pr.details, cadenceHours |-> pr.cadenceHours,
                 nextSendAt |-> pr.now + pr.cadenceHours * CADENCE_SECONDS,
                 createdAt |-> IF existing # JNull THEN existing.createdAt
                               ELSE pr.now,
                 updatedAt |-> pr.now]
     IN Set(p, [pr EXCEPT !.pc = "un_set", !.rec = rec])
  /\ UNCHANGED <<kv, now, env, nreq, hist>>

\* redis.get(key), then rec is built: nextSendAt and createdAt are the
\* existing record's when there is one
UnGet(p) ==
  /\ pcOf(p) = "un_get"
  /\ LET pr == procs[p]
         existing == recordOf(pr.fid, pr.appFid)
         rec == [fid |-> pr.fid, appFid |-> pr.appFid,
                 details |-> pr.details, cadenceHours |-> pr.cadenceHours,
                 nextSendAt |-> IF existing # JNull THEN existing.nextSendAt
                                ELSE pr.now
                                       + pr.cadenceHours * CADENCE_SECONDS,
                 createdAt |-> IF existing # JNull THEN existing.createdAt
                               ELSE pr.now,
                 updatedAt |-> pr.now]
     IN Set(p, [pr EXCEPT !.pc = "un_set", !.rec = rec])
  /\ UNCHANGED <<kv, now, env, nreq, hist>>

\* redis.set(key, JSON.stringify(rec))
UnSet(p) ==
  /\ pcOf(p) = "un_set"
  /\ kv' = setJson(NOTIF_KEYS_user(procs[p].fid, procs[p].appFid),
                   JStr(procs[p].rec))
  /\ Set(p, [procs[p] EXCEPT !.pc = "un_zadd"])
  /\ UNCHANGED <<now, env, nreq, hist>>

\* redis.zadd(dueZ, {score: rec.nextSendAt, member}); the webhook answers
UnZadd(p) ==
  /\ pcOf(p) = "un_zadd"
  /\ kv' = zadd(NOTIF_KEYS_member(procs[p].fid, procs[p].appFid),
                procs[p].rec.nextSendAt)
  /\ Set(p, [procs[p] EXCEPT !.pc = "done",
               !.ret = [status |-> 200, ok |-> TRUE]])
  /\ UNCHANGED <<now, env, nreq, hist>>

(***************************************************************************)
(* The cron route: GET /api/cron/notifications.  The repository holds two  *)
(* versions of it; env.cronRoute says which one runs.  "part_003" adds to  *)
(* "route.ts" the clean-up of unusable members and records and the write   *)
(* of the normalized record before the due test.                           *)
(***************************************************************************)
CronRoutes == {"route.ts", "part_003"}

\* what sendNotification returns: ok, or a status (none on a network error)
SendOk         == [ok |-> TRUE, status |-> 200]
SendFailed(st) == [ok |-> FALSE, status |-> st]
SendNetwork    == [ok |-> FALSE, status |-> 0]
SendResults ==
  {SendOk, SendFailed(429), SendFailed(400), SendFailed(500), SendNetwork}

\* the loop goes on to the next member, or the run answers with its counts
cronContinue(pr) ==
  LET next == [pr EXCEPT !.rec = JNull, !.result = JNull, !.fid = 0,
                         !.appFid = 0, !.memberId = ""]
  IN IF pr.counts.due < Len(pr.members)
     THEN [next EXCEPT !.pc = "cron_load",
                       !.memberId = pr.members[pr.counts.due + 1],
                       !.counts.due = pr.counts.due + 1]
     ELSE [next EXCEPT !.pc = "done", !.members = <<>>,
                       !.ret = [status |-> 200, ok |-> TRUE,
                                counts |-> pr.counts]]

(***************************************************************************)
(* removeNotification(redis, fid, appFid), called by the webhook and by    *)
(* the cron.                                                               *)
(***************************************************************************)
\* redis.del(NOTIF_KEYS.user(fid, appFid))
RmDel(p) ==
  /\ pcOf(p) = "rm_del"
  /\ kv' = delKey(NOTIF_KEYS_user(procs[p].fid, procs[p].appFid))
  /\ Set(p, [procs[p] EXCEPT !.pc = "rm_zrem"])
  /\ UNCHANGED <<now, env, nreq, hist>>

\* the record is deleted and the member stays in the due set
RmZremSkipped(p) ==
  /\ pcOf(p) = "rm_zrem"
  /\ LET pr == procs[p]
     IN IF pr.kind = "WEBHOOK"
        THEN /\ Set(p, [pr EXCEPT !.pc = "done",
                          !.ret = [status |-> 200, ok |-> TRUE]])
             /\ hist' = notifHist(hist, hist.sent,
                                  hist.removed \cup {<<pr.fid, pr.appFid>>})
        ELSE /\ Set(p, cronContinue(pr))
             /\ hist' = hist
  /\ UNCHANGED <<kv, now, env, nreq>>

\* redis.zrem(dueZ, NOTIF_KEYS.member(fid, appFid)); the webhook answers,
\* the cron goes on with its loop
RmZrem(p) ==
  /\ pcOf(p) = "rm_zrem"
  /\ LET pr == procs[p]
     IN /\ kv' = zrem(NOTIF_KEYS_member(pr.fid, pr.appFid))
        /\ IF pr.kind = "WEBHOOK"
           THEN /\ Set(p, [pr EXCEPT !.pc = "done",
                             !.ret = [status |-> 200, ok |-> TRUE]])
                /\ hist' = notifHist(hist, hist.sent,
                                     hist.removed \cup {<<pr.fid, pr.appFid>>})
           ELSE /\ Set(p, cronContinue(pr))
                /\ hist' = hist
  /\ UNCHANGED <<now, env, nreq>>

(***************************************************************************)
(* The webhook route: POST /api/webhook with a parsed event.               *)
(***************************************************************************)
NoDetails == [token |-> "", url |-> ""]
DetailsOf(token) == [token |-> token, url |-> "https://host/notify"]

\* eventName.includes("disabled") || eventName.includes("removed")
isDisabledOrRemoved(name) ==
  name \in {"notifications_disabled", "miniapp_removed"}

\* details?.token && details?.url
hasDetails(details) == details.token # "" /\ details.url # ""

\* POST up to its first storage operation; verified is what
\* parseWebhookEvent made of the signature
WEBHOOK(p, verified, fid, appFid, name, details) ==
  /\ FreeSlot(p)
  /\ nreq' = nreq + 1
  /\ UNCHANGED <<kv, now, env>>
  /\ IF ~verified
     THEN /\ Set(p, [NotifIdle EXCEPT !.pc = "done", !.kind = "WEBHOOK",
                       !.ret = [status |-> 401, ok |-> FALSE]])
          /\ hist' = hist
     ELSE IF hasDetails(details)
     THEN /\ Set(p, [NotifIdle EXCEPT !.pc = "un_get", !.kind = "WEBHOOK",
                       !.fid = fid, !.appFid = appFid, !.now = nowSec,
                       !.cadenceHours = envCadenceHours,
                       !.details = [token |-> details.token,
                                    url |-> details.url, appFid |-> appFid]])
          /\ hist' = notifHist(hist, hist.sent,
                               hist.removed \ {<<fid, appFid>>})
     ELSE IF isDisabledOrRemoved(name)
     THEN /\ Set(p, [NotifIdle EXCEPT !.pc = "rm_del", !.kind = "WEBHOOK",
                       !.fid = fid, !.appFid = appFid])
          /\ hist' = hist
     ELSE /\ Set(p, [NotifIdle EXCEPT !.pc = "done", !.kind = "WEBHOOK",
                       !.ret = [status |-> 200, ok |-> TRUE]])
          /\ hist' = hist

(***************************************************************************)
(* The cron run.                                                           *)
(***************************************************************************)
\* GET up to its first storage operation
CRON(p, authorized) ==
  /\ FreeSlot(p)
  /\ nreq' = nreq + 1
  /\ IF ~authorized
     THEN Set(p, [NotifIdle EXCEPT !.pc = "done", !.kind = "CRON",
                    !.ret = [status |-> 401, ok |-> FALSE]])
     ELSE Set(p, [NotifIdle EXCEPT !.pc = "cron_zrange", !.kind = "CRON",
                    !.now = nowSec])
  /\ UNCHANGED <<kv, now, env, hist>>

\* redis.zrange(dueZ, 0, now, {byScore: true, offset: 0, count: 25})
CronZrange(p) ==
  /\ pcOf(p) = "cron_zrange"
  /\ LET pr == procs[p]
         members == zrangeByScore(0, pr.now, CRON_BATCH)
     IN Set(p, cronContinue([pr EXCEPT !.members = members]))
  /\ UNCHANGED <<kv, now, env, nreq, hist>>

\* part_003 turns whatever usable record it finds into a NotifRecord
normalized(rec0) ==
  [rec0 EXCEPT !.cadenceHours = IF @ \in {1, 6, 12} THEN @ ELSE 6]

\* the member's record is read.  route.ts: a missing record is passed over
\* and a record not yet due is passed over.  part_003: a member that does
\* not parse is removed from the due set, an unusable record is removed,
\* and a usable one is written back before the due test.
CronLoad(p) ==
  /\ pcOf(p) = "cron_load"
  /\ LET pr == procs[p]
         parsed == parseMemberId(pr.memberId)
         rec == IF parsed = JNull THEN JNull
                ELSE recordOf(parsed.fid, parsed.appFid)
     IN IF env.cronRoute = "route.ts"
        THEN /\ kv' = kv
             /\ IF rec = JNull \/ rec.nextSendAt > pr.now
                THEN Set(p, cronContinue(pr))
                ELSE Set(p, [pr EXCEPT !.pc = "cron_send", !.rec = rec])
        ELSE IF parsed = JNull
        THEN /\ kv' = zrem(pr.memberId)
             /\ Set(p, cronContinue(pr))
        ELSE IF rec = JNull
        THEN /\ kv' = kv
             /\ Set(p, [pr EXCEPT !.pc = "rm_del", !.fid = parsed.fid,
                                  !.appFid = parsed.appFid])
        ELSE /\ kv' = kv
             /\ Set(p, [pr EXCEPT !.pc = "cron_persist",
                                  !.rec = normalized(rec)])
  /\ UNCHANGED <<now, env, nreq, hist>>

\* part_003: redis.set(NOTIF_KEYS.user(rec.fid, rec.appFid), rec), then the
\* due test
CronPersist(p) ==
  /\ pcOf(p) = "cron_persist"
  /\ LET pr == procs[p]
     IN /\ kv' = setJson(NOTIF_KEYS_user(pr.rec.fid, pr.rec.appFid),
                         JStr(pr.rec))
        /\ IF pr.rec.nextSendAt > pr.now
           THEN Set(p, cronContinue(pr))
           ELSE Set(p, [pr EXCEPT !.pc = "cron_send"])
  /\ UNCHANGED <<now, env, nreq, hist>>

\* the status of a token that is dropped: 4xx other than 429
isInvalidToken(result) ==
  result.status # 0 /\ result.status >= 400 /\ result.status < 500
  /\ result.status # 429

\* the next send is scheduled from the record's nextSendAt, not from now
cronOutcomeFromSchedule(pr, result) ==
  IF result.ok
  THEN [pr EXCEPT !.pc = "cron_set", !.result = result,
          !.counts.sent = @ + 1,
          !.rec = [pr.rec EXCEPT
                     !.nextSendAt = pr.rec.nextSendAt
                                      + pr.rec.cadenceHours * CADENCE_SECONDS,
                     !.updatedAt = pr.now]]
  ELSE IF result.status = 429
  THEN cronContinue([pr EXCEPT !.counts.rateLimited = @ + 1])
  ELSE IF isInvalidToken(result)
  THEN [pr EXCEPT !.pc = "rm_del", !.result = result,
          !.counts.invalid = @ + 1,
          !.fid = pr.rec.fid, !.appFid = pr.rec.appFid]
  ELSE [pr EXCEPT !.pc = "cron_bump", !.result = result]

\* what the cron does with a result
cronOutcome(pr, result) ==
  IF result.ok
  THEN [pr EXCEPT !.pc = "cron_set", !.result = result,
          !.counts.sent = @ + 1,
          !.rec = [pr.rec EXCEPT
                     !.nextSendAt = pr.now
                                      + pr.rec.cadenceHours * CADENCE_SECONDS,
                     !.updatedAt = pr.now]]
  ELSE IF result.status = 429
  THEN cronContinue([pr EXCEPT !.counts.rateLimited = @ + 1])
  ELSE IF isInvalidToken(result)
  THEN [pr EXCEPT !.pc = "rm_del", !.result = result,
          !.counts.invalid = @ + 1,
          !.fid = pr.rec.fid, !.appFid = pr.rec.appFid]
  ELSE [pr EXCEPT !.pc = "cron_bump", !.result = result]

\* const result = await sendNotification(rec): the answer of the
\* notification endpoint is an input
CronSend(p, result) ==
  /\ pcOf(p) = "cron_send"
  /\ Set(p, cronOutcome(procs[p], result))
  /\ hist' = IF result.ok
             THEN notifHist(hist,
                    [m \in (DOMAIN hist.sent) \cup {procs[p].memberId} |->
                       IF m = procs[p].memberId
                       THEN [at |-> procs[p].now,
                             cadenceHours |-> procs[p].rec.cadenceHours]
                       ELSE hist.sent[m]],
                    hist.removed)
             ELSE hist
  /\ UNCHANGED <<kv, now, env, nreq>>

\* redis.set(NOTIF_KEYS.user(rec.fid, rec.appFid), JSON.stringify(rec))
CronSet(p) ==
  /\ pcOf(p) = "cron_set"
  /\ kv' = setJson(NOTIF_KEYS_user(procs[p].rec.fid, procs[p].rec.appFid),
                   JStr(procs[p].rec))
  /\ Set(p, [procs[p] EXCEPT !.pc = "cron_zadd"])
  /\ UNCHANGED <<now, env, nreq, hist>>

\* redis.zadd(dueZ, {score: rec.nextSendAt, member: memberId})
CronZadd(p) ==
  /\ pcOf(p) = "cron_zadd"
  /\ kv' = zadd(procs[p].memberId, procs[p].rec.nextSendAt)
  /\ Set(p, cronContinue(procs[p]))
  /\ UNCHANGED <<now, env, nreq, hist>>

\* the record's nextSendAt goes up by a full cadence on a retry
CronBumpRecord(p) ==
  /\ pcOf(p) = "cron_bump"
  /\ LET pr == procs[p]
         rec == [pr.rec EXCEPT
                   !.nextSendAt = pr.now
                                    + pr.rec.cadenceHours * CADENCE_SECONDS]
     IN /\ kv' = [zadd(pr.memberId, pr.now + RETRY_BUMP) EXCEPT
                    ![NOTIF_KEYS_user(rec.fid, rec.appFid)] = JStr(rec)]
        /\ Set(p, cronContinue(pr))
  /\ UNCHANGED <<now, env, nreq, hist>>

\* 5xx or network: redis.zadd(dueZ, {score: now + 10 * 60, member})
CronBump(p) ==
  /\ pcOf(p) = "cron_bump"
  /\ kv' = zadd(procs[p].memberId, procs[p].now + RETRY_BUMP)
  /\ Set(p, cronContinue(procs[p]))
  /\ UNCHANGED <<now, env, nreq, hist>>

(***************************************************************************)
(* Time for the notification handlers: ten minutes pass (early in the     *)
(* behaviour), or the clock goes to the next score of the due set.         *)
(***************************************************************************)
MaxBumps == 1  \* ten-minute ticks taken in one behaviour

NotifHorizon == 4 * 12 * CADENCE_SECONDS

TickBump ==
  /\ nowSec < MaxBumps * RETRY_BUMP
  /\ now' = now + RETRY_BUMP * 1000
  /\ UNCHANGED <<kv, env, procs, nreq, hist>>

TickDue ==
  /\ \E m \in DOMAIN dueZ : dueZ[m] > nowSec /\ dueZ[m] <= NotifHorizon
  /\ LET later == {dueZ[m] : m \in {x \in DOMAIN dueZ : dueZ[x] > nowSec}}
     IN now' = 1000 * (CHOOSE t \in later : \A u \in later : t <= u)
  /\ UNCHANGED <<kv, env, procs, nreq, hist>>

NotifStep(p) ==
  \/ UnGet(p) \/ UnSet(p) \/ UnZadd(p)
  \/ RmDel(p) \/ RmZrem(p)
  \/ CronZrange(p) \/ CronLoad(p) \/ CronPersist(p)
  \/ \E result \in SendResults : CronSend(p, result)
  \/ CronSet(p) \/ CronZadd(p) \/ CronBump(p)

(***************************************************************************)
(* SpecNotif: webhooks and cron runs served one at a time, from empty      *)
(* storage, under a cadence setting that is absent, 1 or (not a legal      *)
(* cadence) 2, and either version of the cron route.                       *)
(***************************************************************************)
MaxNotifRequests == 4  \* webhooks and cron runs received in one behaviour

WebhookEvents ==
  {[name |-> "notifications_enabled", details |-> DetailsOf("tokenA")],
   [name |-> "miniapp_added", details |-> DetailsOf("tokenB")],
   [name |-> "miniapp_added", details |-> NoDetails],
   [name |-> "notifications_disabled", details |-> NoDetails],
   [name |-> "miniapp_removed", details |-> NoDetails]}

InitNotif ==
  /\ kv = << >>
  /\ now = 0
  /\ \E c \in {EnvUnset, EnvNum(1), EnvNum(2)} :
     \E route \in CronRoutes :
       env = [NOTIF_CADENCE_HOURS |-> c, cronRoute |-> route]
  /\ procs = [p \in Procs |-> NotifIdle]
  /\ nreq = 0
  /\ hist = NoHist

NextNotif ==
  \/ \E p \in Procs : \E pair \in NotifPairs : \E ev \in WebhookEvents :
     \E verified \in BOOLEAN :
        /\ nreq < MaxNotifRequests
        /\ AllIdle
        /\ ~verified => (pair[1] = 1 /\ ~hasDetails(ev.details))
        /\ WEBHOOK(p, verified, pair[1], pair[2], ev.name, ev.details)
  \/ \E p \in Procs : \E authorized \in BOOLEAN :
        nreq < MaxNotifRequests /\ AllIdle /\ CRON(p, authorized)
  \/ \E p \in Procs : NotifStep(p)
  \/ TickBump
  \/ TickDue

SpecNotif == InitNotif /\ [][NextNotif]_vars

(***************************************************************************)
(* SpecUnsub: one webhook and one cron run may be in flight together,      *)
(* interleaved at every storage operation.                                 *)
(***************************************************************************)
MaxUnsubRequests == 3  \* webhooks and cron runs received in one behaviour

InFlight(kind) == \E q \in Procs : ~Free(q) /\ procs[q].kind = kind

NextUnsub ==
  \/ \E p \in Procs : \E ev \in WebhookEvents :
        /\ nreq < MaxUnsubRequests
        /\ ~InFlight("WEBHOOK")
        /\ hasDetails(ev.details) \/ isDisabledOrRemoved(ev.name)
        /\ WEBHOOK(p, TRUE, 1, 1, ev.name, ev.details)
  \/ \E p \in Procs :
        nreq < MaxUnsubRequests /\ ~InFlight("CRON") /\ CRON(p, TRUE)
  \/ \E p \in Procs : NotifStep(p)
  \/ TickDue

SpecUnsub == InitNotif /\ [][NextUnsub]_vars

(***************************************************************************)
(* Properties of the rollover under concurrent requests (Spec).            *)
(***************************************************************************)

\* C2: the persisted watermark never decreases: every write to the
\* watermark key stores a value >= the value it replaces.
WatermarkNeverDecreases == [][Watermark' >= Watermark]_vars

\* C3: the snapshot record of a week is written exactly once: once it
\* exists no step overwrites it or changes its top, totalPlayers or
\* createdAtMs.
SnapshotWrittenOnce ==
  [][\A w \in Weeks : HasSnapshot(w) => SnapshotOf(w)' = SnapshotOf(w)]_vars

\* C4: in every reachable state, intermediate states of running rollovers
\* included, every week id 0 <= w <= persisted watermark has a persisted
\* snapshot record.
WatermarkedWeeksHaveSnapshot ==
  \A w \in Weeks : w <= Watermark => HasSnapshot(w)

\* two weeks are behind the watermark while a concurrent rollover is about
\* to write a snapshot
WatermarkedWeeksWitness ==
  /\ Watermark >= 1
  /\ \E p \in Procs : pcOf(p) = "ens_setSnapshot"

\* C8: a rolloverIfNeeded(nowWeekId) call never writes a snapshot for, and
\* never deletes the live store of, a week id >= nowWeekId.
CurrentWeekNeverSnapshotted ==
  [][\A p \in Procs : \A w \in Weeks :
       (/\ InRollover(p)
        /\ procs'[p] # procs[p]
        /\ \/ SnapshotOf(w)' # SnapshotOf(w)
           \/ HasLive(w) /\ ~HasLive(w)')
       => w < procs[p].nowWeek]_vars

\* a rollover has just finalized the last elapsed week while the current
\* week has a live store
CurrentWeekWitness ==
  \E p \in Procs :
    /\ pcOf(p) = "ro_setLast"
    /\ procs[p].w = procs[p].nowWeek - 1
    /\ HasSnapshot(procs[p].w)
    /\ ~HasLive(procs[p].w)
    /\ HasLive(procs[p].nowWeek)

\* C9: once week w is finalized (snapshot written, watermark >= w), late
\* upserts into w's window (a resurrected live store) leave the snapshot's
\* top and totalPlayers as they are, and a view of w returns them.
LateEventsKeepSnapshot ==
  [][/\ \A w \in Weeks :
          (HasSnapshot(w) /\ Watermark >= w /\ HasLive(w))
          => /\ HasSnapshot(w)'
             /\ SnapshotOf(w)'.top = SnapshotOf(w).top
             /\ SnapshotOf(w)'.totalPlayers = SnapshotOf(w).totalPlayers
     /\ \A p \in Procs :
          (/\ pcOf(p) = "view_readSnapshot"
           /\ procs'[p].pc = "done"
           /\ HasSnapshot(procs[p].weekId))
          => /\ procs'[p].ret.kind = "snapshot"
             /\ procs'[p].ret.top = SnapshotOf(procs[p].weekId).top]_vars

\* C28: after any set of rolloverIfNeeded calls (sequential or concurrent)
\* has run to completion, the persisted snapshot index is a strictly
\* increasing, duplicate-free list that contains every week id for which a
\* snapshot record exists.
SnapshotIndexComplete ==
  AllIdle =>
    LET idx == readSnapshotsIndex
    IN /\ \A i, j \in DOMAIN idx : i < j => idx[i] < idx[j]
       /\ \A w \in Weeks : HasSnapshot(w) => w \in SeqToSet(idx)

\* C29: in every state in which no rolloverIfNeeded call is in progress,
\* no week id greater than the persisted watermark has a snapshot record.
NoSnapshotAboveWatermark ==
  (\A p \in Procs : ~InRollover(p)) =>
    \A w \in Weeks : w > Watermark => ~HasSnapshot(w)

(***************************************************************************)
(* Properties of requests served one at a time.                            *)
(***************************************************************************)

\* C1: between calls no week id has both a persisted live store and a
\* persisted snapshot (whatever the event timestamps were).
LiveXorSnapshot ==
  AllIdle => \A w \in Weeks : ~(HasLive(w) /\ HasSnapshot(w))

\* C5: running rolloverIfNeeded(N) to completion twice in a row leaves the
\* storage (snapshots, snapshot index, live stores, watermark) as running
\* it once left it.
RolloverIdempotent ==
  (/\ hist.prev # JNull
   /\ hist.cur # JNull
   /\ hist.prev.n = hist.cur.n)
  => hist.cur.kv = hist.prev.kv

\* rolloverIfNeeded(N) ran twice in a row, N >= 1, and week 0 was finalized
\* with a player in it
RolloverIdempotentWitness ==
  /\ hist.prev # JNull
  /\ hist.cur # JNull
  /\ hist.prev.n = hist.cur.n
  /\ hist.cur.n >= 1
  /\ lookup(hist.cur.kv, KEY_snapshot(0)) # JNull
  /\ lookup(hist.cur.kv, KEY_snapshot(0)).totalPlayers >= 1

bestKeys(w) == {key \in DOMAIN hist.best : key[1] = w}

\* C7: after a rolloverIfNeeded(N) that ran to completion, earlier calls
\* having failed at any storage operation or not, every week <= N-1 has a
\* snapshot counting the players its live store held, is in the snapshot
\* index, has no live store, and the watermark is N-1.
CrashResumes ==
  \A p \in Procs :
    (pcOf(p) \in {"view_readSnapshot", "view_loadWeekStore"}
     /\ procs[p].nowWeek >= 1)
    => /\ Watermark = procs[p].nowWeek - 1
       /\ \A w \in 0..(procs[p].nowWeek - 1) :
            /\ HasSnapshot(w)
            /\ SnapshotOf(w).totalPlayers = Cardinality(bestKeys(w))
            /\ w \in SeqToSet(readSnapshotsIndex)
            /\ ~HasLive(w)

\* C10: after every upsertWeeklyBest call of a sequence, the stored entry
\* of each (week, normalized address) holds the maximum score submitted so
\* far (so it never decreases), and its updatedAt is the write of the call
\* that submitted that maximum.
UpsertKeepsMax ==
  AllIdle =>
    \A key \in DOMAIN hist.best :
      LET store == LiveOf(key[1])
          i == entryIndex(store.entries, key[2])
      IN /\ HasLive(key[1])
         /\ i # 0
         /\ store.entries[i].score = hist.best[key].score
         /\ store.entries[i].updatedAt >= hist.best[key].at
         /\ store.entries[i].updatedAt <= now

\* a lower score, then a higher one later, for one address in mixed case
UpsertKeepsMaxWitness ==
  /\ AllIdle
  /\ \E key \in DOMAIN hist.best :
       /\ hist.best[key].first < hist.best[key].score
       /\ hist.best[key].at > 0
       /\ LET store == LiveOf(key[1])
              i == entryIndex(store.entries, key[2])
          IN /\ HasLive(key[1])
             /\ store.entries[i].score = hist.best[key].score
             /\ store.entries[i].address # key[2]

\* the persisted entry of the player of the upsert p is running, or JNull
persistedEntry(p) ==
  LET store == LiveOf(procs[p].weekId)
      k == toLowerCase(procs[p].params.address)
  IN IF HasLive(procs[p].weekId) /\ entryIndex(store.entries, k) # 0
     THEN store.entries[entryIndex(store.entries, k)]
     ELSE JNull

\* C11: an upsertWeeklyBest call whose score is lower than or equal to the
\* player's persisted entry for that week returns after its load with no
\* storage write: the whole storage (the entry's score, txHash, updatedAt
\* and the store's updatedAt included) is as it was.
LowerOrEqualUpsertWritesNothing ==
  [][\A p \in Procs :
       (/\ pcOf(p) = "up_loadWeekStore"
        /\ procs'[p] # procs[p]
        /\ persistedEntry(p) # JNull
        /\ procs[p].params.score <= persistedEntry(p).score)
       => /\ procs'[p].pc = "done"
          /\ kv' = kv]_vars

\* two calls have returned, the second for the player of the first with a
\* score no higher, at a later time: the entry is the one the first wrote
LowerOrEqualUpsertWitness ==
  /\ AllIdle
  /\ nreq = 2
  /\ Cardinality(DOMAIN hist.best) = 1
  /\ \E key \in DOMAIN hist.best :
       /\ hist.best[key].score = hist.best[key].first
       /\ hist.best[key].at < now
       /\ HasLive(key[1])
       /\ Len(LiveOf(key[1]).entries) = 1
       /\ LiveOf(key[1]).updatedAt = hist.best[key].at
       /\ LiveOf(key[1]).entries[1].updatedAt = hist.best[key].at

(***************************************************************************)
(* Properties of the players of a week (SpecPlayers).                      *)
(***************************************************************************)
\* C25: entries are keyed by the lower-cased address, so upserts whose
\* addresses differ only in letter case update the same entry, and after
\* any sequential sequence of upserts the number of entries of a week's
\* store equals the number of distinct lower-cased addresses submitted to
\* that week.
OneEntryPerPlayer ==
  AllIdle =>
    \A w \in Weeks :
      LET entries == loadWeekStore(w).entries
      IN /\ Len(entries) = Cardinality(bestKeys(w))
         /\ \A i \in DOMAIN entries :
              /\ entries[i].key = toLowerCase(entries[i].address)
              /\ <<w, entries[i].key>> \in bestKeys(w)
         /\ \A i, j \in DOMAIN entries :
              entries[i].key = entries[j].key => i = j

\* three calls for week 0 have returned: two for one player, the second in
\* another letter case and with a higher score, and one for another player;
\* the store holds two entries
OneEntryPerPlayerWitness ==
  /\ AllIdle
  /\ nreq = 3
  /\ Cardinality(bestKeys(0)) = 2
  /\ HasLive(0)
  /\ Len(LiveOf(0).entries) = 2
  /\ \E i \in DOMAIN LiveOf(0).entries :
       LET e == LiveOf(0).entries[i]
       IN /\ e.address # e.key
          /\ e.score > hist.best[<<0, e.key>>].first

(***************************************************************************)
(* Properties of concurrent upserts (SpecLost).                            *)
(***************************************************************************)
entryKeys(store) == {store.entries[i].key : i \in DOMAIN store.entries}

\* call p is about to save, and call q has returned after saving the store
\* now persisted for the same week; neither had loaded the other's entry
\* (both loaded before either saved)
SavesLastAfterRace(p, q) ==
  /\ p # q
  /\ pcOf(p) = "up_saveWeekStore"
  /\ pcOf(q) = "done"
  /\ procs[q].kind = "UPSERT"
  /\ procs[q].weekId = procs[p].weekId
  /\ LiveOf(procs[p].weekId) = procs[q].ret.store
  /\ toLowerCase(procs[p].params.address) \notin entryKeys(procs[q].ret.store)
  /\ entryKeys(procs[q].ret.store) \ entryKeys(procs[p].store) # {}

\* C24: when two upsertWeeklyBest calls for different players in the same
\* week both load the store before either saves it, the persisted store
\* after the second save holds the entry of the call that saved last and
\* not the other player's new entry; when no save falls between a call's
\* load and its own save (no interleaving), its save keeps every persisted
\* entry and adds its own.
LostUpdate ==
  [][\A p \in Procs :
       (pcOf(p) = "up_saveWeekStore" /\ procs'[p].pc = "done")
       => LET w == procs[p].weekId
              k == toLowerCase(procs[p].params.address)
              before == IF HasLive(w) THEN entryKeys(LiveOf(w)) ELSE {}
          IN /\ HasLive(w)'
             /\ k \in entryKeys(LiveOf(w)')
             /\ \A q \in Procs :
                  SavesLastAfterRace(p, q) =>
                    \A lost \in entryKeys(procs[q].ret.store)
                                 \ entryKeys(procs[p].store) :
                      lost \notin entryKeys(LiveOf(w)')
             /\ procs[p].store.entries
                  = putEntry(loadWeekStore(w).entries, k,
                      procs[p].store.entries[
                        entryIndex(procs[p].store.entries, k)]) =>
                  entryKeys(LiveOf(w)') = before \cup {k}]_vars

\* two calls for two players of week 0 have returned, each with a store
\* holding its own entry only, and the persisted store holds one entry
LostUpdateWitness ==
  /\ nreq = 2
  /\ \A p \in Procs :
       /\ pcOf(p) = "done"
       /\ procs[p].kind = "UPSERT"
       /\ procs[p].weekId = 0
       /\ Len(procs[p].ret.store.entries) = 1
  /\ procs[1].ret.store.entries[1].key # procs[2].ret.store.entries[1].key
  /\ HasLive(0)
  /\ Len(LiveOf(0).entries) = 1

(***************************************************************************)
(* Properties of resubmission after a lost update (SpecResubmit).          *)
(***************************************************************************)
\* what getWeekLeaderboardView returned shows the address with the score
\* (or a higher one)
visibleIn(view, address, score) ==
  LET k == toLowerCase(address)
      rows == IF view.kind = "live" THEN view.store.entries ELSE view.top
  IN \E i \in DOMAIN rows :
       /\ toLowerCase(rows[i].address) = k
       /\ rows[i].score >= score

\* request p is a GET that has returned the view of week w
ViewReturned(p, w) ==
  /\ pcOf(p) = "done"
  /\ procs[p].kind = "GET"
  /\ "kind" \in DOMAIN procs[p].ret
  /\ procs[p].ret.weekId = w

\* C31: after a concurrent-upsert race has dropped a player's entry, a
\* later uncontended upsertWeeklyBest with the same address, score and event
\* timestamp makes that score visible in getWeekLeaderboardView for the
\* event's week, whatever rollovers happened in between.
ResubmissionRecovers ==
  hist.resub # JNull =>
    \A p \in Procs :
      ViewReturned(p, hist.resub.weekId)
      => visibleIn(procs[p].ret, hist.resub.address, hist.resub.score)

(***************************************************************************)
(* Properties of the view resolver (SpecView).                             *)
(***************************************************************************)
\* request p is inside getWeekLeaderboardView, past its rollover
InView(p) == pcOf(p) \in {"view_readSnapshot", "view_loadWeekStore"}

\* the store loadWeekStore(w) returns from the persisted state
loadedStore(w) ==
  IF HasLive(w) THEN LiveOf(w) ELSE WeekStoreOf(w, now, <<>>)

\* C12: getWeekLeaderboardView({weekId, nowWeekId}) returns kind
\* "snapshot" if and only if weekId < nowWeekId, and otherwise kind "live"
\* with the live store loaded for weekId.
ViewDispatch ==
  [][\A p \in Procs :
       (InView(p) /\ procs'[p].pc = "done")
       => LET view == procs'[p].ret
              weekId == procs[p].weekId
          IN /\ view.kind \in {"snapshot", "live"}
             /\ view.kind = "snapshot" <=> weekId < procs[p].nowWeek
             /\ view.kind = "live" =>
                  /\ view.weekId = weekId
                  /\ view.store = loadedStore(weekId)]_vars

\* a snapshot view holding a player has been returned for a past week
\* while the current week has a live store
ViewDispatchWitness ==
  \E p \in Procs :
    /\ pcOf(p) = "done"
    /\ procs[p].kind = "GET"
    /\ "kind" \in DOMAIN procs[p].ret
    /\ procs[p].ret.kind = "snapshot"
    /\ procs[p].weekId < procs[p].nowWeek
    /\ procs[p].ret.totalPlayers >= 1
    /\ HasLive(procs[p].nowWeek)

\* C32: when weekId < nowWeekId and no valid snapshot record can be read
\* for weekId, getWeekLeaderboardView does not fail and does not fall back
\* to the live store: it returns kind "snapshot" with an empty top,
\* totalPlayers = 0 and the start and end of weekWindowFromId(weekId).
AbsentSnapshotAnsweredEmpty ==
  [][\A p \in Procs :
       (/\ InView(p)
        /\ procs[p].weekId < procs[p].nowWeek
        /\ ~HasSnapshot(procs[p].weekId)
        /\ procs'[p] # procs[p])
       => LET view == procs'[p].ret
              window == weekWindowFromId(procs[p].weekId)
          IN /\ procs'[p].pc = "done"
             /\ "kind" \in DOMAIN view
             /\ view.kind = "snapshot"
             /\ view.weekId = procs[p].weekId
             /\ view.top = <<>>
             /\ view.totalPlayers = 0
             /\ view.weekStartMs = window.startMs
             /\ view.weekEndMs = window.endMs]_vars

\* a past week that has a live store with a player, and under its snapshot
\* key something that is no snapshot of it, has been answered empty
AbsentSnapshotWitness ==
  \E p \in Procs :
    /\ pcOf(p) = "done"
    /\ procs[p].kind = "GET"
    /\ procs[p].weekId < procs[p].nowWeek
    /\ SnapshotOf(procs[p].weekId) # JNull
    /\ ~HasSnapshot(procs[p].weekId)
    /\ HasLive(procs[p].weekId)
    /\ Len(LiveOf(procs[p].weekId).entries) >= 1
    /\ "kind" \in DOMAIN procs[p].ret
    /\ procs[p].ret.kind = "snapshot"
    /\ procs[p].ret.top = <<>>
    /\ procs[p].ret.totalPlayers = 0

\* the live store of week w as the GET in flight found it
callStore(w) ==
  LET v == lookup(hist.call, KEY_weekStore(w))
  IN IF isWeekStore(v, w) THEN v ELSE WeekStoreOf(w, 0, <<>>)

\* the watermark as the GET in flight found it
callWatermark ==
  LET v == lookup(hist.call, KEY_lastSnapWeekId)
  IN IF v.type = "number" THEN v.v ELSE -1

\* entry e of the store is persisted in week w's live store
inLiveStore(w, e) ==
  /\ HasLive(w)
  /\ \E i \in DOMAIN LiveOf(w).entries : LiveOf(w).entries[i] = e

\* entry e of the store is counted in week w's persisted snapshot, and is
\* in its top if it ranks within the first TOP_N of the store
inSnapshot(w, e, store) ==
  /\ HasSnapshot(w)
  /\ SnapshotOf(w).totalPlayers = Len(store.entries)
  /\ (rankOf(store, e.address) # JNull
      /\ rankOf(store, e.address).v <= TOP_N) =>
       \E j \in DOMAIN SnapshotOf(w).top : SnapshotOf(w).top[j] = e

\* C33: at every intermediate point of a single (non-concurrent)
\* finalization of week w, each entry that was in w's live store when the
\* finalization began is persisted in the live store, or is counted in the
\* persisted snapshot's totalPlayers (and is in its top if it ranks within
\* the first 100); the snapshot is written before the live store is
\* deleted, and the live store is deleted before the watermark advances
\* to w.
NoDataLossWindow ==
  /\ [](\A p \in Procs :
         (InRollover(p) /\ procs[p].kind = "GET")
         => \A w \in Weeks :
              \A i \in DOMAIN callStore(w).entries :
                LET e == callStore(w).entries[i]
                IN inLiveStore(w, e) \/ inSnapshot(w, e, callStore(w)))
  /\ [][\A w \in Weeks :
          /\ (HasLive(w) /\ ~HasLive(w)') =>
               /\ HasSnapshot(w)
               /\ SnapshotOf(w)' = SnapshotOf(w)
               /\ SnapshotOf(w).totalPlayers = Len(LiveOf(w).entries)
               /\ SnapshotOf(w).top = topEntries(LiveOf(w), TOP_N)
          /\ (Watermark < w /\ Watermark' = w) =>
               (~HasLive(w) /\ ~HasLive(w)')]_vars

\* an intermediate point: the snapshot of the week being finalized is
\* written and counts a player, and the live store is not yet deleted
NoDataLossWindowWitness ==
  \E p \in Procs :
    /\ pcOf(p) = "ens_deleteWeekStore"
    /\ procs[p].kind = "GET"
    /\ HasLive(procs[p].w)
    /\ Len(LiveOf(procs[p].w).entries) >= 1
    /\ HasSnapshot(procs[p].w)
    /\ SnapshotOf(procs[p].w).totalPlayers >= 1

\* request p is the first call after a window boundary, no call having
\* rolled over since, and asks for the week that has just ended
FirstViewAfterBoundary(p) ==
  /\ procs[p].kind = "GET"
  /\ procs[p].nowWeek >= 1
  /\ procs[p].weekId = procs[p].nowWeek - 1
  /\ callWatermark < procs[p].nowWeek - 1

\* C13: the first getWeekLeaderboardView call after a window boundary for
\* weekId = nowWeekId-1 returns a snapshot whose top is the top-100 ranking
\* and whose totalPlayers is the entry count of the live store as it stood;
\* on return the watermark is >= nowWeekId-1 and the week's live store is
\* gone.
RolloverOnRead ==
  [][\A p \in Procs :
       (InView(p) /\ procs'[p].pc = "done" /\ FirstViewAfterBoundary(p))
       => LET view == procs'[p].ret
              w == procs[p].weekId
          IN /\ view.kind = "snapshot"
             /\ view.weekId = w
             /\ view.top = topEntries(callStore(w), TOP_N)
             /\ view.totalPlayers = Len(callStore(w).entries)
             /\ Watermark' >= w
             /\ ~HasLive(w)']_vars

\* such a call is about to return and the week it asked for ended with two
\* players in its live store
RolloverOnReadWitness ==
  \E p \in Procs :
    /\ pcOf(p) = "view_readSnapshot"
    /\ FirstViewAfterBoundary(p)
    /\ Len(callStore(procs[p].weekId).entries) >= 2

\* C20: when a rolloverIfNeeded(N) call returns, every week in 0..N-1 for
\* which no score was ever submitted has a snapshot with totalPlayers = 0
\* and an empty top, and the watermark has reached N-1, however many empty
\* weeks the call had to catch up.
EmptyWeeksFinalized ==
  [][\A p \in Procs :
       (InRollover(p) /\ procs'[p].pc \notin RolloverPcs)
       => /\ Watermark' >= procs[p].nowWeek - 1
          /\ \A w \in 0..(procs[p].nowWeek - 1) :
               bestKeys(w) = {} =>
                 /\ HasSnapshot(w)'
                 /\ SnapshotOf(w)'.totalPlayers = 0
                 /\ SnapshotOf(w)'.top = <<>>]_vars

\* the first request came two boundaries after the start and its rollover
\* has finalized both empty weeks
EmptyWeeksFinalizedWitness ==
  /\ nreq = 1
  /\ hist.best = << >>
  /\ Watermark = 1
  /\ HasSnapshot(0) /\ SnapshotOf(0).totalPlayers = 0
  /\ HasSnapshot(1) /\ SnapshotOf(1).top = <<>>
  /\ \E p \in Procs : InView(p) /\ procs[p].nowWeek = 2

\* C26: within one rolloverIfNeeded call weeks are finalized in strictly
\* increasing order with no week skipped, from the week after the
\* watermark the call read to its target; the watermark is persisted as w
\* after week w's snapshot is written and before any storage operation for
\* week w+1 begins; it advances by exactly 1 per persisted write.
FinalizesInOrder ==
  [][\A p \in Procs :
       LET pr == procs[p]
           nx == procs'[p]
       IN /\ (pr.pc = "ro_getLast" /\ nx # pr /\ nx.pc \in RolloverPcs)
             => /\ nx.pc = "ens_getSnapshot"
                /\ nx.w = Watermark + 1
                /\ nx.w <= pr.target
          /\ (pr.pc \in RolloverPcs \ {"ro_getLast", "ro_setLast"}
              /\ nx # pr)
             => /\ nx.pc \in RolloverPcs
                /\ nx.w = pr.w
                /\ Watermark = pr.w - 1
                /\ Watermark' = Watermark
                /\ \A w \in Weeks :
                     w # pr.w => /\ SnapshotOf(w)' = SnapshotOf(w)
                                 /\ LiveOf(w)' = LiveOf(w)
          /\ (pr.pc = "ro_setLast" /\ nx # pr)
             => /\ HasSnapshot(pr.w)
                /\ Watermark' = pr.w
                /\ Watermark' = Watermark + 1
                /\ IF pr.w < pr.target
                   THEN nx.pc = "ens_getSnapshot" /\ nx.w = pr.w + 1
                   ELSE nx.pc \notin RolloverPcs]_vars

\* a call with target 1 has finalized week 1, a player in it, and is about
\* to persist watermark 1; week 0 is finalized and the watermark is 0
FinalizesInOrderWitness ==
  \E p \in Procs :
    /\ pcOf(p) = "ro_setLast"
    /\ procs[p].w = 1
    /\ procs[p].target = 1
    /\ Watermark = 0
    /\ HasSnapshot(0)
    /\ HasSnapshot(1)
    /\ SnapshotOf(1).totalPlayers >= 1
    /\ ~HasLive(1)

UpsertPcs == {"up_loadWeekStore", "up_saveWeekStore"}

\* the snapshot snap holds, at the rank POST p answers with, the entry of
\* p's player with the highest score submitted for the week
holdsPlayerOf(snap, p) ==
  LET r == procs[p].ret.myRank
  IN /\ r.type = "number"
     /\ r.v \in DOMAIN snap.top
     /\ publicTop(snap.top) = procs[p].ret.top
     /\ snap.top[r.v].score
          = hist.best[<<procs[p].weekId, snap.top[r.v].key>>].score

\* C27: in the POST handler upsertWeeklyBest (keyed by the event's
\* timestamp) completes before rolloverIfNeeded (keyed by the server's
\* current time) starts, so a score whose timestamp falls in a fully elapsed
\* week that is not yet finalized (week > watermark) is contained in that
\* week's snapshot created by the same request: no snapshot or watermark
\* is written while the upsert runs; when it returns, the rollover starts
\* with a target >= the event's week; and when the rollover reaches that
\* week it finds no snapshot and writes one that holds the player's entry.
IngestBeforeRollover ==
  [][\A p \in Procs :
       LET pr == procs[p]
           nx == procs'[p]
       IN (pr.kind = "POST" /\ nx # pr) =>
            /\ pr.pc \in UpsertPcs =>
                 /\ Watermark' = Watermark
                 /\ \A w \in Weeks : SnapshotOf(w)' = SnapshotOf(w)
            /\ (/\ pr.pc \in UpsertPcs
                /\ nx.pc \notin UpsertPcs
                /\ pr.weekId < currentWeekId(now)
                /\ pr.weekId > Watermark)
               => /\ nx.pc = "ro_getLast"
                  /\ nx.target >= pr.weekId
                  /\ nx.target = currentWeekId(now) - 1
                  /\ HasLive(pr.weekId)'
            /\ (pr.pc = "ens_getSnapshot" /\ pr.w = pr.weekId)
               => nx.pc = "ens_loadWeekStore"
            /\ (pr.pc = "ens_loadWeekStore" /\ pr.w = pr.weekId)
               => holdsPlayerOf(nx.snap, p)
            /\ (pr.pc = "ens_setSnapshot" /\ pr.w = pr.weekId)
               => /\ HasSnapshot(pr.weekId)'
                  /\ holdsPlayerOf(SnapshotOf(pr.weekId)', p)]_vars

\* a POST received in week 2 for an event of week 1 has written week 1's
\* snapshot, which holds its player with the score submitted; the week's
\* live store is still there
IngestBeforeRolloverWitness ==
  \E p \in Procs :
    /\ pcOf(p) = "ens_readIndex"
    /\ procs[p].kind = "POST"
    /\ procs[p].weekId = 1
    /\ procs[p].w = 1
    /\ procs[p].nowWeek = 2
    /\ HasSnapshot(1)
    /\ holdsPlayerOf(SnapshotOf(1), p)
    /\ SnapshotOf(1).createdAtMs = now
    /\ HasLive(1)

\* C14: the GET handler rejects every requested week id greater than the
\* current week id, so getWeekLeaderboardView only runs with
\* weekId <= nowWeekId.
FutureWeeksRejected ==
  \A p \in Procs :
    (procs[p].kind = "GET" /\ (InRollover(p) \/ InView(p)))
    => procs[p].weekId <= procs[p].nowWeek

(***************************************************************************)
(* Properties of the handlers' input validation (SpecInput).               *)
(***************************************************************************)
\* request p has just been received
Received(p) == Free(p) /\ procs'[p] # procs[p]

\* the step answers request p with status 400 and touches no storage: the
\* request is over in the step that received it, so no storage operation
\* (each a step of its own) is made for it
RejectedUntouched(p) ==
  /\ procs'[p].pc = "done"
  /\ procs'[p].ret.status = 400
  /\ kv' = kv

\* 0x followed by 64 hex digits
isProofReference(h) ==
  /\ Len(h) = 66
  /\ SubSeq(h, 1, 2) = <<"0", "x">>
  /\ \A i \in 3..66 : h[i] \in HexDigits

\* C21: a GET whose week parameter is non-finite or negative returns 400
\* without any storage read, write or rollover, and a POST whose txHash is
\* not 0x followed by 64 hex digits returns 400 without any storage read
\* or write.
InvalidInputRejected ==
  [][\A p \in Procs :
       LET req == hist'.req
       IN (/\ Received(p)
           /\ \/ /\ req.kind = "GET"
                 /\ req.week.given
                 /\ (~req.week.finite \/ req.week.v < 0)
              \/ /\ req.kind = "POST"
                 /\ ~isProofReference(req.txHash))
          => RejectedUntouched(p)]_vars

\* with a live store and a watermark persisted, a POST whose txHash has 66
\* characters, the last no hex digit, has been answered 400; the scoreboard
\* address is configured
InvalidInputRejectedWitness ==
  /\ SCOREBOARD_ADDRESS
  /\ hist.req # JNull
  /\ hist.req.kind = "POST"
  /\ Len(hist.req.txHash) = 66
  /\ hist.req.txHash[66] = "g"
  /\ hist.req.receipt.event
  /\ Watermark >= 0
  /\ HasLive(1)
  /\ \E p \in Procs :
       /\ pcOf(p) = "done"
       /\ procs[p].kind = "POST"
       /\ procs[p].ret.status = 400

\* 0x followed by 40 hex digits
wellFormedAddress(a) ==
  /\ Len(a) = 42
  /\ SubSeq(a, 1, 2) = <<"0", "x">>
  /\ \A i \in 3..42 : a[i] \in HexDigits

\* C22: a GET whose account parameter is a malformed address is rejected
\* synchronously, before any storage read, write or rollover happens.
MalformedAccountRejected ==
  [][\A p \in Procs :
       LET req == hist'.req
       IN (/\ Received(p)
           /\ req.kind = "GET"
           /\ accountGiven(req.account)
           /\ ~wellFormedAddress(req.account.s))
          => RejectedUntouched(p)]_vars

(***************************************************************************)
(* Properties of the ranking (SpecRank).                                   *)
(***************************************************************************)
\* entry a ranks strictly higher than entry b
ranksHigher(a, b) ==
  \/ a.score > b.score
  \/ a.score = b.score /\ a.updatedAt < b.updatedAt

\* C15: topEntries(store, limit) returns at most limit entries of the
\* store (each once, and none left out while there is room), ordered by
\* score descending with ties by earlier updatedAt first, and every entry
\* left out ranks no higher than every entry returned.
RankingRule ==
  \A p \in Procs :
    (pcOf(p) = "done" /\ procs[p].kind = "TOP")
    => LET top == procs[p].ret.top
           limit == procs[p].ret.limit
           all == SeqToSet(LiveOf(0).entries)
           out == all \ SeqToSet(top)
       IN /\ Len(top) <= limit
          /\ Len(top) = Min2(limit, Cardinality(all))
          /\ SeqToSet(top) \subseteq all
          /\ Cardinality(SeqToSet(top)) = Len(top)
          /\ \A i, j \in DOMAIN top : i < j => ~ranksHigher(top[j], top[i])
          /\ \A e \in out : \A x \in SeqToSet(top) : ~ranksHigher(e, x)

\* the store holds scores [1, 2, 2, 0], the first 2 updated earlier, and an
\* entry is left out: 2 (earlier), 2 (later), 1 are returned in that order
RankingRuleWitness ==
  \E p \in Procs :
    /\ pcOf(p) = "done"
    /\ procs[p].kind = "TOP"
    /\ procs[p].ret.limit = 3
    /\ LET e == LiveOf(0).entries
           top == procs[p].ret.top
       IN /\ Len(e) = 4
          /\ e[1].score = 1 /\ e[2].score = 2 /\ e[3].score = 2
          /\ e[4].score = 0
          /\ e[2].updatedAt < e[3].updatedAt
          /\ top = <<e[2], e[3], e[1]>>

\* what a rankOf call that returned rank for address says of the store e,
\* the ranking being cut after the first cap entries: null when no entry
\* has the address or the entry is not among the first cap, else its
\* position from 1 (among entries that tie on score and updatedAt, any of
\* their positions); and the index in topEntries(store, 100) when that list
\* holds the address (stated for the stores of at most MaxEntries entries)
rankAgrees(e, address, rank, cap) ==
  LET a == toLowerCase(address)
      matches(i) == toLowerCase(e[i].address) = a
      higher(i) == Cardinality({j \in DOMAIN e : ranksHigher(e[j], e[i])})
      ties(i) == Cardinality({j \in DOMAIN e : /\ ~ranksHigher(e[j], e[i])
                                                /\ ~ranksHigher(e[i], e[j])})
      top == topEntries(WeekStoreOf(0, 0, e), TOP_N)
  IN /\ (\A i \in DOMAIN e : ~matches(i)) => rank = JNull
     /\ \A i \in DOMAIN e :
          matches(i) =>
            IF higher(i) >= cap THEN rank = JNull
            ELSE /\ rank.type = "number"
                 /\ rank.v > higher(i)
                 /\ rank.v <= higher(i) + ties(i)
     /\ Len(e) <= MaxEntries =>
          \A k \in DOMAIN top :
            toLowerCase(top[k].address) = a => rank = JNum(k)

\* C23: rankOf(store, address) is the 1-based position of the address
\* (compared case-insensitively) in the ranking ordered by the top-N rule,
\* computed over at most the first 5000 ranked entries, and null when the
\* address has no entry; for every address in topEntries(store, 100) it is
\* the 1-based index in that list.
RankOfCapped ==
  \A p \in Procs :
    (pcOf(p) = "done" /\ procs[p].kind = "RANK")
    => rankAgrees(LiveOf(0).entries, procs[p].ret.address, procs[p].ret.rank,
                  RANK_CAP)

(***************************************************************************)
(* Properties of the end-to-end scenario (SpecScenario).                   *)
(***************************************************************************)
\* the ranking holds exactly one entry, of this address and score
topIs(top, address, score) ==
  /\ Len(top) = 1
  /\ top[1].address = address
  /\ top[1].score = score

\* what the scenario expects of the view request p has returned
ScenarioExpected(p) ==
  LET view == procs[p].ret
  IN /\ procs[p].nowWeek = 2
     /\ procs[p].weekId = 0 =>
          view.kind = "snapshot" /\ topIs(view.top, AddrPool[1], 10)
     /\ procs[p].weekId = 1 =>
          view.kind = "snapshot" /\ topIs(view.top, AddrPool[3], 20)
     /\ procs[p].weekId = 2 =>
          view.kind = "live" /\ view.store.entries = <<>>

ScenarioViewReturned(p) ==
  /\ pcOf(p) = "done"
  /\ procs[p].kind = "GET"
  /\ "kind" \in DOMAIN procs[p].ret

\* C16 as stated: with genesis 0 and a configured window length of 1000 ms
\* (or any other), after score 10 for A at W/2 and score 20 for B at 3W/2,
\* the views at nowWeekId = weekIdFromTs(2W+1) = 2 are a snapshot of week 0
\* with top [A:10], a snapshot of week 1 with top [B:20] and a live, empty
\* week 2.
EndToEndScenario ==
  \A p \in Procs : ScenarioViewReturned(p) => ScenarioExpected(p)

\* C16 amended: the same with a configured window length of at least the
\* 10 000 ms floor (10 for A at 5000, 20 for B at 15000, views at
\* nowWeekId = weekIdFromTs(20001) = 2).
EndToEndScenarioAtFloor ==
  \A p \in Procs :
    (ScenarioViewReturned(p) /\ configuredMs >= MIN_WEEK_MS)
    => ScenarioExpected(p)

\* with W = 10000 the view of week 1 has been returned after week 0's
EndToEndScenarioWitness ==
  \E p \in Procs :
    /\ ScenarioViewReturned(p)
    /\ configuredMs >= MIN_WEEK_MS
    /\ procs[p].weekId = 1
    /\ procs[p].ret.kind = "snapshot"
    /\ procs[p].ret.totalPlayers = 1
    /\ HasSnapshot(0)
    /\ nreq >= 4

(***************************************************************************)
(* Properties of the week clock (SpecClock).                               *)
(***************************************************************************)
\* C17: for all integer timestamps t1 <= t2,
\* weekIdFromTs(t1) <= weekIdFromTs(t2); the result is a non-negative
\* integer, and every timestamp earlier than genesis maps to week id 0.
WeekIdMonotone ==
  \A p \in Procs :
    (pcOf(p) = "done" /\ procs[p].kind = "WEEKID")
    => LET r == procs[p].ret
       IN /\ r.t1 <= r.t2 => r.id1 <= r.id2
          /\ r.id1 \in Nat
          /\ r.t1 < getGenesisMs => r.id1 = 0

\* a timestamp before a genesis after the epoch, and one two windows later
WeekIdMonotoneWitness ==
  \E p \in Procs :
    /\ pcOf(p) = "done"
    /\ procs[p].kind = "WEEKID"
    /\ getGenesisMs > 0
    /\ procs[p].ret.t1 < getGenesisMs
    /\ procs[p].ret.id1 = 0
    /\ procs[p].ret.id2 = 1

\* C18: for every week id w, weekWindowFromId(w).startMs < endMs and
\* weekWindowFromId(w).endMs = weekWindowFromId(w+1).startMs
\* = startMs + weekMs; every timestamp t >= genesis lies in
\* [startMs, endMs) of weekWindowFromId(weekIdFromTs(t)).
WindowsTile ==
  \A p \in Procs :
    (pcOf(p) = "done" /\ procs[p].kind = "WINDOW")
    => LET r == procs[p].ret
       IN /\ r.window.startMs < r.window.endMs
          /\ r.window.endMs = r.next.startMs
          /\ r.window.endMs = r.window.startMs + getWeekMs
          /\ r.t >= getGenesisMs =>
               /\ r.windowOfT.startMs <= r.t
               /\ r.t < r.windowOfT.endMs

\* a window after the first and the last millisecond of a window, under a
\* window length configured in seconds and a genesis after the epoch
WindowsTileWitness ==
  \E p \in Procs :
    /\ pcOf(p) = "done"
    /\ procs[p].kind = "WINDOW"
    /\ getWeekMs = 20000
    /\ getGenesisMs > 0
    /\ procs[p].ret.w >= 1
    /\ procs[p].ret.t = procs[p].ret.windowOfT.endMs - 1

\* C30: for every configured LEADERBOARD_WEEK_MS / LEADERBOARD_WEEK_SECONDS
\* value (below 10000 ms, zero, negative and non-numeric ones included)
\* getWeekMs returns a value >= 10000, so the week id of a time, which is
\* the most weeks a rollover call at that time has to finalize, is at most
\* the time elapsed since genesis / 10000 ms.
WeekLengthFloor ==
  /\ getWeekMs >= MIN_WEEK_MS
  /\ \A p \in Procs :
       (pcOf(p) = "done" /\ procs[p].kind = "WEEKID")
       => LET r == procs[p].ret
          IN /\ r.id2 * MIN_WEEK_MS <= Max2(0, r.t2 - getGenesisMs)
             /\ rolloverTarget(r.id2) + 1 <= Max2(0, r.t2 - getGenesisMs)
                                                \div MIN_WEEK_MS

\* 9 seconds are configured: the week length is the default, and the time
\* asked for lies in week 1
WeekLengthFloorWitness ==
  /\ ~env.LEADERBOARD_WEEK_MS.set
  /\ env.LEADERBOARD_WEEK_SECONDS = EnvNum(9)
  /\ getWeekMs = DEFAULT_WEEK_MS
  /\ \E p \in Procs :
       /\ pcOf(p) = "done"
       /\ procs[p].kind = "WEEKID"
       /\ procs[p].ret.id2 = 1

(***************************************************************************)
(* Properties of loadWeekStore (SpecLoad).                                 *)
(***************************************************************************)
\* the persisted value is an object whose weekId is w and whose entries
\* are an object (an array is one: typeof [] is "object")
wellFormedStore(v, w) ==
  /\ v.type = "object"
  /\ "weekId" \in DOMAIN v
  /\ v.weekId = w
  /\ "entries" \in DOMAIN v
  /\ ("entriesType" \in DOMAIN v => v.entriesType = "object")

\* C19: loadWeekStore(weekId) returns the persisted record only when it is
\* an object whose weekId equals the requested id and that has an entries
\* map; for a missing or malformed record it returns a fresh empty store
\* with the requested weekId; in every case it writes nothing.
LoadValidates ==
  [][\A p \in Procs :
       (pcOf(p) = "load_getJson" /\ procs'[p].pc = "done")
       => LET w == procs[p].weekId
              v == lookup(kv, KEY_weekStore(w))
              got == procs'[p].ret
          IN /\ kv' = kv
             /\ got.weekId = w
             /\ IF wellFormedStore(v, w) THEN got = v
                ELSE got = WeekStoreOf(w, now, <<>>)]_vars

\* a call has returned a fresh empty store for a key that holds a record
\* of another week, at a later time, and the record is still there
LoadValidatesWitness ==
  \E p \in Procs :
    /\ pcOf(p) = "done"
    /\ procs[p].kind = "LOAD"
    /\ procs[p].weekId = 0
    /\ now > 0
    /\ procs[p].ret = WeekStoreOf(0, now, <<>>)
    /\ lookup(kv, KEY_weekStore(0)).type = "object"
    /\ lookup(kv, KEY_weekStore(0)).weekId = 1

(***************************************************************************)
(* Properties of concurrent rollovers for one nowWeekId (SpecRace).        *)
(***************************************************************************)
baseStore(w) ==
  LET v == lookup(hist.base, KEY_weekStore(w))
  IN IF isWeekStore(v, w) THEN v ELSE WeekStoreOf(w, 0, <<>>)

\* C6: when every one of the interleaved rolloverIfNeeded(N) calls has
\* returned, each snapshot's top and totalPlayers and the watermark are
\* those a single uninterrupted call leaves: the ranking and the entry
\* count of the live store the calls started from, and N-1.
ConcurrentRolloverAsOne ==
  (AllIdle /\ nreq >= 1) =>
    /\ Watermark = currentWeekId(now) - 1
    /\ \A w \in 0..(currentWeekId(now) - 1) :
         /\ HasSnapshot(w)
         /\ SnapshotOf(w).top = topEntries(baseStore(w), TOP_N)
         /\ SnapshotOf(w).totalPlayers = Len(baseStore(w).entries)

(***************************************************************************)
(* Properties of the notification handlers served one at a time            *)
(* (SpecNotif).                                                            *)
(***************************************************************************)
\* the score of the pair's member in the due set
scoreOf(fid, appFid) == dueZ[NOTIF_KEYS_member(fid, appFid)]

\* C34: calling upsertNotification again for an already registered
\* (fid, appFid) keeps the record's nextSendAt and createdAt and leaves the
\* member's score in the due sorted set equal to that unchanged nextSendAt;
\* only details, cadenceHours and updatedAt may change.
UpsertIdempotent ==
  [][\A p \in Procs :
       LET fid == procs[p].fid
           appFid == procs[p].appFid
       IN /\ (pcOf(p) = "un_set" /\ procs'[p].pc = "un_zadd"
                                /\ hasRecord(fid, appFid))
             => LET old == recordOf(fid, appFid)
                    new == recordOf(fid, appFid)'
                IN /\ new # JNull
                   /\ [new EXCEPT !.details = old.details,
                                  !.cadenceHours = old.cadenceHours,
                                  !.updatedAt = old.updatedAt] = old
          /\ (pcOf(p) = "un_zadd" /\ procs'[p].pc = "done")
             => /\ recordOf(fid, appFid)' = recordOf(fid, appFid)
                /\ hasMember(fid, appFid)'
                /\ scoreOf(fid, appFid)' = procs[p].rec.nextSendAt
                /\ hasRecord(fid, appFid) =>
                     scoreOf(fid, appFid)'
                       = recordOf(fid, appFid).nextSendAt]_vars

\* a pair registered earlier, and overdue since, has been registered again
\* with another token: the record keeps its times and the member's score is
\* the record's nextSendAt
UpsertIdempotentWitness ==
  \E p \in Procs :
    /\ pcOf(p) = "done"
    /\ procs[p].kind = "WEBHOOK"
    /\ procs[p].rec # JNull
    /\ procs[p].rec.createdAt < procs[p].rec.updatedAt
    /\ procs[p].rec.nextSendAt < procs[p].rec.updatedAt
    /\ procs[p].rec.details.token = "tokenB"
    /\ recordOf(procs[p].fid, procs[p].appFid) = procs[p].rec
    /\ scoreOf(procs[p].fid, procs[p].appFid) = procs[p].rec.nextSendAt


\* the pairs that have a stored record, and the pairs that are members of the
\* due set
registeredPairs == {pair \in NotifPairs : hasRecord(pair[1], pair[2])}
duePairs == {pair \in NotifPairs : hasMember(pair[1], pair[2])}

\* C35: between the handlers of a sequential run (every upsertNotification,
\* removeNotification and cron run that was started has completed) the
\* members of the due sorted set are exactly the (fid, appFid) pairs that
\* have a stored record, and the due set holds nothing else.
DueSetInSync ==
  AllIdle =>
    /\ duePairs = registeredPairs
    /\ DOMAIN dueZ =
         {NOTIF_KEYS_member(pair[1], pair[2]) : pair \in registeredPairs}

\* a cron run that sent to both pairs has completed and the second pair was
\* unsubscribed afterwards: one pair is left, in both places
DueSetInSyncWitness ==
  /\ AllIdle
  /\ DOMAIN hist.sent = {NOTIF_KEYS_member(1, 1), NOTIF_KEYS_member(2, 1)}
  /\ hist.removed = {<<2, 1>>}
  /\ registeredPairs = {<<1, 1>>}
  /\ duePairs = {<<1, 1>>}


\* the stored record of the member a cron run is at
cronRecord(pr) ==
  LET parsed == parseMemberId(pr.memberId)
  IN recordOf(parsed.fid, parsed.appFid)

CronFailureHandling ==
  [][/\ \A p \in Procs : \A pair \in NotifPairs :
          procs[p].memberId = NOTIF_KEYS_member(pair[1], pair[2]) =>
            /\ \A result \in SendResults \ {SendOk} :
                 CronSend(p, result) =>
                   /\ kv' = kv
                   /\ recordOf(pair[1], pair[2]) = procs[p].rec
                   /\ IF result.status = 429
                      THEN /\ pcOf(p)' \in {"cron_load", "done"}
                           /\ procs[p].memberId' # procs[p].memberId
                      ELSE IF result.status \in 400..499
                      THEN /\ pcOf(p)' = "rm_del"
                           /\ procs[p].fid' = pair[1]
                           /\ procs[p].appFid' = pair[2]
                      ELSE pcOf(p)' = "cron_bump"
            /\ (/\ pcOf(p) = "rm_del" /\ procs[p].kind = "CRON"
                /\ procs[p]' # procs[p]) =>
                 /\ pcOf(p)' = "rm_zrem"
                 /\ ~hasRecord(pair[1], pair[2])'
            /\ (/\ pcOf(p) = "rm_zrem" /\ procs[p].kind = "CRON"
                /\ procs[p]' # procs[p]) =>
                 /\ pcOf(p)' \in {"cron_load", "done"}
                 /\ ~hasRecord(pair[1], pair[2])'
                 /\ ~hasMember(pair[1], pair[2])'
            /\ (pcOf(p) = "cron_bump" /\ procs[p]' # procs[p]) =>
                 /\ pcOf(p)' \in {"cron_load", "done"}
                 /\ recordOf(pair[1], pair[2]) = procs[p].rec
                 /\ recordOf(pair[1], pair[2])' = procs[p].rec
                 /\ hasMember(pair[1], pair[2])'
                 /\ scoreOf(pair[1], pair[2])' = procs[p].now + RETRY_BUMP
     /\ \A pair \in NotifPairs :
          (/\ hasRecord(pair[1], pair[2])
           /\ hasRecord(pair[1], pair[2])'
           /\ recordOf(pair[1], pair[2])'.nextSendAt
                # recordOf(pair[1], pair[2]).nextSendAt) =>
            \E p \in Procs : pcOf(p) = "cron_set" /\ procs[p].result.ok
    ]_vars

\* a cron run has completed whose send to the first pair failed with a 5xx
\* or on the network and whose send to the second was refused with a 4xx:
\* the first pair's record still has its due nextSendAt under a score ten
\* minutes on, the second pair is gone
CronFailureHandlingWitness ==
  /\ procs[1].kind = "CRON" /\ procs[1].pc = "done"
  /\ procs[1].ret.status = 200
  /\ procs[1].ret.counts =
       [due |-> 2, sent |-> 0, invalid |-> 1, rateLimited |-> 0]
  /\ hasRecord(1, 1)
  /\ recordOf(1, 1).nextSendAt <= procs[1].now
  /\ scoreOf(1, 1) = procs[1].now + RETRY_BUMP
  /\ ~hasRecord(2, 1) /\ ~hasMember(2, 1)


(***************************************************************************)
(* Properties of a webhook and a cron run in flight together (SpecUnsub).  *)
(***************************************************************************)
\* C38: once removeNotification(fid, appFid) called by the webhook has
\* completed, and until a later webhook with notification details for the
\* pair arrives, the pair has neither a stored record nor a member in the
\* due set, whatever a cron run that had loaded the record goes on to do.
UnsubscribeIsFinal ==
  \A pair \in hist.removed :
    ~hasRecord(pair[1], pair[2]) /\ ~hasMember(pair[1], pair[2])

====
